---------------------------- MODULE Spec2Model ----------------------------
(***************************************************************************)
(* Model of the book recommendation system: the relational store (users,   *)
(* books, ratings), the document store (books_metadata, users_profiles),   *)
(* the update scripts that write them, the recommendation scripts that     *)
(* read them, and the latent-factor recommender CFRecommender.             *)
(*                                                                         *)
(* Numbers that the code keeps as floats are kept as exact rationals       *)
(* (numerator, denominator) or as fixed-point integers; each place says    *)
(* which.                                                                  *)
(***************************************************************************)
EXTENDS Integers, Sequences, FiniteSets, TLC

\* ------------------------------------------------------------------ bounds
MaxUsers == 2          \* users that insert_new_user may create
MaxBooks == 2          \* books that insert_new_book may create
MaxRatings == 2        \* rows that the update scripts may insert

\* ratings handed to insert_rating_and_update_metrics (a 0..10 scale)
RatingInputs == {0, 5, 8, 10}

None == "None"

VARIABLES
    users,            \* MySQL users: user_id -> [has_ratings]
    books,            \* MySQL books: set of isbn
    ratings,          \* MySQL ratings: rows in insertion order
    books_metadata,   \* MongoDB books_metadata: isbn -> document
    users_profiles,   \* MongoDB users_profiles: user_id -> profile
    ubm               \* locals of the last update_book_metrics call

storeVars == <<users, books, ratings, books_metadata, users_profiles, ubm>>

\* ------------------------------------------------------------ arithmetic
Abs(x) == IF x < 0 THEN -x ELSE x

Min(a, b) == IF a <= b THEN a ELSE b

Max(a, b) == IF a >= b THEN a ELSE b

\* a list comprehension: the function over 1..n as a sequence value
List(f) == SubSeq(f, 1, Len(f))

RECURSIVE SumSeq(_)
SumSeq(s) == IF s = <<>> THEN 0 ELSE Head(s) + SumSeq(Tail(s))

\* round(num/den, 2) in hundredths, den > 0, num >= 0: Python rounds the
\* float to the nearest hundredth, ties to even
Round2(num, den) ==
    LET q == (100 * num) \div den
        r == (100 * num) % den
    IN  IF 2 * r > den THEN q + 1
        ELSE IF 2 * r < den THEN q
        ELSE IF q % 2 = 0 THEN q ELSE q + 1

\* ------------------------------------------------------- ratings queries
RowsOfBook(rows, isbn) == LET P(r) == r.isbn = isbn IN SelectSeq(rows, P)

RowsOfUser(rows, u) == LET P(r) == r.user_id = u IN SelectSeq(rows, P)

RatingsOf(rows) == List([i \in 1..Len(rows) |-> rows[i].rating])

\* MAX over a set of naturals, 0 for the empty set (COALESCE(MAX(..), 0))
MaxOf(S) == IF S = {} THEN 0 ELSE CHOOSE m \in S : \A v \in S : v <= m

\* SELECT COALESCE(MAX(r_seq_user), 0) + 1 FROM ratings WHERE user_id = u
next_seq_user(rows, u) ==
    LET mine == RowsOfUser(rows, u)
    IN  MaxOf({mine[i].r_seq_user : i \in 1..Len(mine)}) + 1

\* SELECT COALESCE(MAX(r_seq_book), 0) + 1 FROM ratings WHERE isbn = b
next_seq_book(rows, isbn) ==
    LET mine == RowsOfBook(rows, isbn)
    IN  MaxOf({mine[i].r_seq_book : i \in 1..Len(mine)}) + 1

\* --------------------------------------------------------------- metrics
r_cat(rating) ==
    IF rating = 0 THEN "not_rated"
    ELSE IF rating <= 3 THEN "low"
    ELSE IF rating <= 6 THEN "mid"
    ELSE IF rating <= 8 THEN "high"
    ELSE "very_high"

\* category of an average total/count
r_category(total, count) ==
    IF total = 0 THEN "unrated"
    ELSE IF total <= 3 * count THEN "low"
    ELSE IF total <= 6 * count THEN "mid"
    ELSE IF total <= 8 * count THEN "high"
    ELSE "very_high"

\* mutant: the prior counted once instead of five times
rating_score_num_one_prior(total_score) == total_score + 5

\* rating_score = (total_score + 5 * 5) / (total_ratings + 5), as a rational
rating_score_num(total_score) == total_score + 5 * 5

rating_score_den(total_ratings) == total_ratings + 5

\* the rating_metrics that insert_new_book writes
initial_rating_metrics ==
    [r_total |-> 0, r_count |-> 0, r_avg |-> 0, rating_score |-> 0,
     r_category |-> "unrated"]

NoCall == [isbn |-> None, total_ratings |-> 0, total_score |-> 0,
           score_num |-> 0, score_den |-> 1]

\* locals of update_book_metrics(isbn) on the rows of the ratings table
book_metrics_locals(rows, isbn) ==
    LET mine == RatingsOf(RowsOfBook(rows, isbn))
        total_ratings == Len(mine)
        total_score == SumSeq(mine)
    IN  [isbn |-> isbn, total_ratings |-> total_ratings,
         total_score |-> total_score,
         score_num |-> rating_score_num(total_score),
         score_den |-> rating_score_den(total_ratings)]

\* the document store after update_book_metrics(isbn); update_one does not
\* upsert, and the function returns early when the book has no rating
book_metrics_updated(meta, rows, isbn) ==
    LET l == book_metrics_locals(rows, isbn)
    IN  IF l.total_ratings = 0 \/ isbn \notin DOMAIN meta THEN meta
        ELSE [meta EXCEPT ![isbn].rating_metrics =
                [r_total |-> l.total_score,
                 r_count |-> l.total_ratings,
                 r_avg |-> Round2(l.total_score, l.total_ratings),
                 rating_score |-> Round2(l.score_num, l.score_den),
                 r_category |-> r_category(l.total_score, l.total_ratings)]]

reader_level(explicit_ratings) ==
    IF explicit_ratings = 0 THEN "implicit_only"
    ELSE IF explicit_ratings < 10 THEN "new_reader"
    ELSE IF explicit_ratings < 50 THEN "casual_reader"
    ELSE IF explicit_ratings < 200 THEN "active_reader"
    ELSE "power_reader"

\* the profile store after update_user_metrics(user_id)
user_metrics_updated(profiles, rows, u) ==
    LET mine == RowsOfUser(rows, u)
        P(r) == r.rating > 0
        explicit_ratings == Len(SelectSeq(mine, P))
    IN  IF Len(mine) = 0 \/ u \notin DOMAIN profiles THEN profiles
        ELSE [profiles EXCEPT ![u] =
                [reader_level |-> reader_level(explicit_ratings),
                 has_ratings |-> TRUE,
                 total_ratings |-> Len(mine),
                 total_books |-> Cardinality({mine[i].isbn : i \in 1..Len(mine)}),
                 explicit_ratings |-> explicit_ratings]]

\* ------------------------------------------------------- update scripts
get_next_user_id ==
    MaxOf(DOMAIN users) + 1

insert_new_user ==
    /\ Cardinality(DOMAIN users) < MaxUsers
    /\ LET user_id == get_next_user_id
       IN  /\ users' = (user_id :> [has_ratings |-> FALSE]) @@ users
           /\ users_profiles' =
                (user_id :> [reader_level |-> "new_reader",
                             has_ratings |-> FALSE,
                             total_ratings |-> 0,
                             total_books |-> 0,
                             explicit_ratings |-> 0]) @@ users_profiles
    /\ UNCHANGED <<books, ratings, books_metadata, ubm>>

insert_new_book(isbn) ==
    /\ isbn \notin books
    /\ books' = books \cup {isbn}
    /\ books_metadata' =
         (isbn :> [rating_metrics |-> initial_rating_metrics]) @@ books_metadata
    /\ UNCHANGED <<users, ratings, users_profiles, ubm>>

update_book_metrics(isbn) ==
    /\ isbn \in books
    /\ books_metadata' = book_metrics_updated(books_metadata, ratings, isbn)
    /\ ubm' = book_metrics_locals(ratings, isbn)
    /\ UNCHANGED <<users, books, ratings, users_profiles>>

insert_rating_and_update_metrics(user_id, isbn, rating) ==
    /\ Len(ratings) < MaxRatings
    /\ user_id \in DOMAIN users
    /\ isbn \in books
    /\ LET row == [user_id |-> user_id, isbn |-> isbn, rating |-> rating,
                   r_seq_user |-> next_seq_user(ratings, user_id),
                   r_seq_book |-> next_seq_book(ratings, isbn),
                   r_cat |-> r_cat(rating)]
           rows == Append(ratings, row)
       IN  /\ ratings' = rows
           /\ books_metadata' = book_metrics_updated(books_metadata, rows, isbn)
           /\ ubm' = book_metrics_locals(rows, isbn)
           /\ users_profiles' = user_metrics_updated(users_profiles, rows, user_id)
           /\ users' = [users EXCEPT ![user_id].has_ratings = TRUE]
    /\ UNCHANGED books


\* ===================================================== CFRecommender model
MaxRows == 2           \* rows of a DataFrame handed to fit / exclude_seen
MaxK == 1              \* largest k handed to recommend

n_factors == 100       \* CFRecommender.__init__ default

CFUsers == 1..2        \* user ids that occur in DataFrames
CFItems == 1..2        \* isbns that occur in DataFrames
CFQueryUsers == 1..3   \* user ids handed to predict_for_user / recommend
CFQueryItems == 1..3   \* isbns handed as candidates
FactorValues == {-1, 2}   \* entries of svd.components_

\* rating of a DataFrame row, a function of the pair
CFRating(u, i) == 5 + u + 2 * i

CFRow == {[user_id |-> u, isbn |-> i, rating |-> CFRating(u, i)] :
            u \in CFUsers, i \in CFItems}

Frames == UNION {[1..n -> CFRow] : n \in 0..MaxRows}

\* a field that is None in Python is the empty function here: after
\* _build_matrix and after fit every one of them is non-empty
NoneF == <<>>

VARIABLES
    cf,               \* the CFRecommender instance: its fields
    cf_hist,          \* history of the instance: what its fits did
    cf_call           \* the call in progress: arguments and outcome

cfVars == <<cf, cf_hist, cf_call>>

CFIdle == [op |-> None, rows |-> <<>>, user |-> 0, exclude_seen |-> <<>>,
           k |-> 0, outcome |-> None, result |-> <<>>]

\* fit_done: a fit has run to its return statement; state: "unfitted",
\* "fitted" after a fit that returned, "partial" after a fit that raised
\* behind _build_matrix; rows: the frame of the last fit that returned
CFNoHist == [fit_done |-> FALSE, state |-> "unfitted", rows |-> <<>>]

\* the frames handed as exclude_seen
SeenFrames == {f \in Frames : Len(f) <= 1}

\* the permutations of a finite set, as sequences: the orders in which a
\* Python set (or an unordered query) may hand out its elements
RECURSIVE Perms(_)
Perms(S) ==
    IF S = {} THEN {<<>>}
    ELSE UNION {{<<x>> \o p : p \in Perms(S \ {x})} : x \in S}

\* the elements of a finite set of integers in ascending order
Ascending(S) ==
    [i \in 1..Cardinality(S) |->
        CHOOSE x \in S : Cardinality({y \in S : y < x}) = i - 1]

\* list.sort(key=..., reverse=True): stable insertion of x behind every kept
\* element whose key is at least the key of x
InsertDesc(sorted, x) ==
    LET p == Cardinality({i \in 1..Len(sorted) : sorted[i].key >= x.key})
    IN  SubSeq(sorted, 1, p) \o <<x>> \o SubSeq(sorted, p + 1, Len(sorted))

\* keys[i] is the sort key of s[i]
SortDesc(s, keys) ==
    LET f[i \in 0..Len(s)] ==
            IF i = 0 THEN <<>>
            ELSE InsertDesc(f[i - 1], [key |-> keys[i], val |-> s[i]])
        done == f[Len(s)]
    IN  [i \in 1..Len(s) |-> done[i].val]

\* pandas unique(): the values of a column in order of first appearance
RECURSIVE Unique(_)
Unique(s) ==
    IF s = <<>> THEN <<>>
    ELSE LET front == Unique(SubSeq(s, 1, Len(s) - 1))
             x == s[Len(s)]
         IN  IF \E i \in 1..Len(front) : front[i] = x THEN front
             ELSE Append(front, x)

\* {v: i for i, v in enumerate(list)}, positions counted from 1
IndexOf(list) ==
    [v \in {list[i] : i \in 1..Len(list)} |->
        CHOOSE i \in 1..Len(list) : list[i] = v]

frame_users(rows) == Unique([i \in 1..Len(rows) |-> rows[i].user_id])

frame_items(rows) == Unique([i \in 1..Len(rows) |-> rows[i].isbn])

\* csr_matrix((data, (row, col))): entries of one cell are summed
build_matrix(rows) ==
    LET us == frame_users(rows)
        its == frame_items(rows)
    IN  [r \in 1..Len(us) |-> [c \in 1..Len(its) |->
            LET P(x) == x.user_id = us[r] /\ x.isbn = its[c]
            IN  SumSeq(RatingsOf(SelectSeq(rows, P)))]]

\* n_components handed to TruncatedSVD
n_components(n_users, n_items) ==
    LET m == Min(n_users, n_items)
        n_comp == IF m > 1 THEN Min(n_factors, m - 1) ELSE 1
    IN  Max(1, n_comp)

\* TruncatedSVD.fit validates its input and raises ValueError for a matrix
\* with fewer than two columns
svd_fit_raises(M) == Len(M[1]) < 2

\* M @ item_factors
MatMul(M, F, ncomp) ==
    [r \in 1..Len(M) |-> [c \in 1..ncomp |->
        SumSeq([j \in 1..Len(F) |-> M[r][j] * F[j][c]])]]

Dot(a, b) == SumSeq([j \in 1..Len(a) |-> a[j] * b[j]])

cf_unfitted ==
    [user_index |-> NoneF, item_index |-> NoneF, index_item |-> NoneF,
     user_factors |-> NoneF, item_factors |-> NoneF]

\* mutant: the test looks at the indexes only
not_fitted_indexes_only(m) ==
    \/ m.user_index = NoneF
    \/ m.item_index = NoneF

\* the "Model not fitted" test of predict_for_user
not_fitted(m) ==
    \/ m.user_index = NoneF
    \/ m.item_index = NoneF
    \/ m.user_factors = NoneF
    \/ m.item_factors = NoneF

\* the instance after _build_matrix
cf_after_build(m, rows) ==
    [m EXCEPT !.user_index = IndexOf(frame_users(rows)),
              !.item_index = IndexOf(frame_items(rows)),
              !.index_item = frame_items(rows)]

\* mutant: the emptiness test runs behind _build_matrix
fit_outcomes_build_first(m, rows) ==
    LET built == cf_after_build(m, rows)
    IN  IF rows = <<>>
        THEN {[cf |-> built, outcome |-> "ValueError", built |-> TRUE]}
        ELSE LET M == build_matrix(rows)
                 ncomp == n_components(Len(M), Len(M[1]))
             IN  IF svd_fit_raises(M)
                 THEN {[cf |-> built, outcome |-> "ValueError", built |-> TRUE]}
                 ELSE {[cf |-> [built EXCEPT !.item_factors = F,
                                             !.user_factors = MatMul(M, F, ncomp)],
                        outcome |-> "ok", built |-> TRUE] :
                         F \in [1..Len(M[1]) -> [1..ncomp -> FactorValues]]}

\* fit(ratings): ValueError on an empty frame before anything is written;
\* otherwise the indexes are rebuilt, then TruncatedSVD runs, then the
\* factor matrices are assigned. The possible (instance, outcome) pairs.
fit_outcomes(m, rows) ==
    IF rows = <<>>
    THEN {[cf |-> m, outcome |-> "ValueError", built |-> FALSE]}
    ELSE LET M == build_matrix(rows)
             built == cf_after_build(m, rows)
             ncomp == n_components(Len(M), Len(M[1]))
         IN  IF svd_fit_raises(M)
             THEN {[cf |-> built, outcome |-> "ValueError", built |-> TRUE]}
             ELSE {[cf |-> [built EXCEPT !.item_factors = F,
                                         !.user_factors = MatMul(M, F, ncomp)],
                    outcome |-> "ok", built |-> TRUE] :
                     F \in [1..Len(M[1]) -> [1..ncomp -> FactorValues]]}

fit(rows) ==
    /\ cf_call.op = None
    /\ \E o \in fit_outcomes(cf, rows) :
         /\ cf' = o.cf
         /\ cf_call' = [CFIdle EXCEPT !.op = "fit", !.rows = rows,
                                      !.outcome = o.outcome]
         /\ cf_hist' =
              IF o.outcome = "ok"
              THEN [fit_done |-> TRUE, state |-> "fitted", rows |-> rows]
              ELSE IF o.built THEN [cf_hist EXCEPT !.state = "partial"]
              ELSE cf_hist

\* the outcome of predict_for_user(user_id, candidate_isbns) when the
\* candidates are iterated in the order 'order'
predict_outcome(m, user_id, order) ==
    IF not_fitted(m) THEN [outcome |-> "RuntimeError", result |-> <<>>]
    ELSE IF user_id \notin DOMAIN m.user_index
    THEN [outcome |-> "ok", result |-> <<>>]
    ELSE LET uidx == m.user_index[user_id]
             P(i) == i \in DOMAIN m.item_index
             known == SelectSeq(order, P)
             preds == List([j \in 1..Len(known) |->
                         [isbn |-> known[j],
                          score |-> Dot(m.user_factors[uidx],
                                        m.item_factors[m.item_index[known[j]]])]])
         IN  IF uidx > Len(m.user_factors)
                \/ \E j \in 1..Len(known) :
                     m.item_index[known[j]] > Len(m.item_factors)
             THEN [outcome |-> "IndexError", result |-> <<>>]
             ELSE [outcome |-> "ok",
                   result |-> SortDesc(preds,
                                       [j \in 1..Len(preds) |-> preds[j].score])]

predict_for_user(user_id, candidate_isbns) ==
    /\ cf_call.op = None
    /\ \E order \in Perms(candidate_isbns) :
         LET o == predict_outcome(cf, user_id, order)
         IN  cf_call' = [CFIdle EXCEPT !.op = "predict_for_user",
                                       !.user = user_id,
                                       !.outcome = o.outcome,
                                       !.result = o.result]
    /\ UNCHANGED <<cf, cf_hist>>

\* mutant: the rows of every user are taken as seen by nobody
seen_of_nobody(exclude_seen, user_id) ==
    {exclude_seen[i].isbn :
        i \in {j \in 1..Len(exclude_seen) : exclude_seen[j].user_id # user_id}}

\* the isbns of the rows of exclude_seen that belong to user_id
seen_of(exclude_seen, user_id) ==
    {exclude_seen[i].isbn :
        i \in {j \in 1..Len(exclude_seen) : exclude_seen[j].user_id = user_id}}

\* recommend(user_id, all_items, k, exclude_seen); exclude_seen = <<>> is
\* both None and the empty frame, which the code treats alike
recommend(user_id, all_items, k, exclude_seen) ==
    /\ cf_call.op = None
    /\ LET candidates == all_items \ seen_of(exclude_seen, user_id)
       IN  \E order \in Perms(candidates) :
             LET o == predict_outcome(cf, user_id, order)
             IN  cf_call' = [CFIdle EXCEPT !.op = "recommend",
                                           !.user = user_id,
                                           !.exclude_seen = exclude_seen,
                                           !.k = k,
                                           !.outcome = o.outcome,
                                           !.result = SubSeq(o.result, 1,
                                                        Min(k, Len(o.result)))]
    /\ UNCHANGED <<cf, cf_hist>>

\* the call returns (or its exception reaches the caller)
cf_return ==
    /\ cf_call.op # None
    /\ cf_call' = CFIdle
    /\ UNCHANGED <<cf, cf_hist>>


\* ============================================== author diversity (diverse)
MaxRecs == 3           \* length of a recommendation list handed to the step
NumAuthors == 2        \* distinct author names

Authors == 1..NumAuthors

AuthorNames == <<"A", "B", "C", "D">>

\* author lists of a book: one author, or an author with a co-author
AuthorLists ==
    {<<a>> : a \in Authors}
    \cup {<<a, (a % NumAuthors) + 1>> : a \in {b \in Authors : NumAuthors > 1}}

\* how the authors of a book reach the "authors" text of its metadata:
\* "repr" is str(list) as insert_new_book stores a list, "plain" is a
\* comma-separated text stored as given, "missing" is a document without the
\* key
AuthorFormats == {"repr", "plain", "missing"}

RECURSIVE JoinNames(_, _)
JoinNames(list, quote) ==
    LET one == IF quote THEN <<"'", AuthorNames[Head(list)], "'">>
               ELSE <<AuthorNames[Head(list)]>>
    IN  IF Len(list) = 1 THEN one
        ELSE one \o <<",", " ">> \o JoinNames(Tail(list), quote)

\* the characters of the stored authors text
authors_text(list, fmt) ==
    IF fmt = "repr" THEN <<"[">> \o JoinNames(list, TRUE) \o <<"]">>
    ELSE IF fmt = "plain" THEN JoinNames(list, FALSE)
    ELSE <<>>

\* text.split(",")[0]
SplitFirst(text) ==
    LET commas == {i \in 1..Len(text) : text[i] = ","}
    IN  IF commas = {} THEN text
        ELSE SubSeq(text, 1, (CHOOSE i \in commas : \A j \in commas : i <= j) - 1)

\* text.strip()
RECURSIVE Strip(_)
Strip(text) ==
    IF text = <<>> THEN text
    ELSE IF Head(text) = " " THEN Strip(Tail(text))
    ELSE IF text[Len(text)] = " " THEN Strip(SubSeq(text, 1, Len(text) - 1))
    ELSE text

\* authors.split(",")[0].strip() if authors else "Unknown"
primary_author(text) ==
    IF text = <<>> THEN <<"Unknown">> ELSE Strip(SplitFirst(text))

\* what the step reads of a book: its author list and the stored format; the
\* step reads nothing of the authors of a book without the text, so one such
\* book stands for all
DivRec ==
    [authors : AuthorLists, fmt : AuthorFormats \ {"missing"}]
        \cup {[authors |-> <<a>>, fmt |-> "missing"] :
                a \in {b \in Authors : \A c \in Authors : b <= c}}

\* recommendation lists of n distinct books, position = isbn
DivInputs(n) ==
    {[i \in 1..n |-> [isbn |-> i, authors |-> r[i].authors, fmt |-> r[i].fmt]] :
        r \in [1..n -> DivRec]}

VARIABLE div          \* main() of the diversity script: its list and stage

\* mutant: the pass ends at the first book over the cap
ensure_author_diversity_until_full(recommendations, max_per_author) ==
    LET key(rec) == primary_author(authors_text(rec.authors, rec.fmt))
        Full(i) ==
            Cardinality({j \in 1..(i - 1) :
                            key(recommendations[j]) = key(recommendations[i])})
                >= max_per_author
        stops == {i \in 1..Len(recommendations) : Full(i)}
    IN  IF stops = {} THEN recommendations
        ELSE SubSeq(recommendations, 1,
                    (CHOOSE i \in stops : \A j \in stops : i <= j) - 1)

ensure_author_diversity(recommendations, max_per_author) ==
    LET key(rec) == primary_author(authors_text(rec.authors, rec.fmt))
        kept[i \in 0..Len(recommendations)] ==
            IF i = 0 THEN <<>>
            ELSE LET rec == recommendations[i]
                     prev == kept[i - 1]
                     author_count ==
                        Cardinality({j \in 1..Len(prev) :
                                        key(prev[j]) = key(rec)})
                 IN  IF author_count < max_per_author
                     THEN Append(prev, rec)
                     ELSE prev
    IN  kept[Len(recommendations)]

DivIdle == [stage |-> None, input |-> <<>>, max_per_author |-> 0,
            limit |-> 0, diverse_recs |-> <<>>, recommendations |-> <<>>]

\* main(): recommendations = ensure_author_diversity(recommendations,
\* args.max_per_author); recommendations = recommendations[:args.limit]
diversity_step(max_per_author, limit) ==
    /\ div.stage = "input"
    /\ div' = [div EXCEPT
                !.stage = "done",
                !.max_per_author = max_per_author,
                !.limit = limit,
                !.diverse_recs =
                    ensure_author_diversity(div.input, max_per_author),
                !.recommendations =
                    LET d == ensure_author_diversity(div.input, max_per_author)
                    IN  SubSeq(d, 1, Min(limit, Len(d)))]


\* ===================================== recommendation scripts: the snapshot
NumUsers == 2          \* users of a ratings snapshot
NumBooks == 7          \* books of a ratings snapshot
NumGenres == 2         \* root genres of the catalogue

MinCommonBooks == 5    \* min_common_books default
SimilarLimit == 20     \* find_similar_users limit default
SimpleCandidateCap == 300    \* candidate_users[:300]
CandidateCap == 500          \* candidate_users[:500]
GenreLimit == 5        \* get_user_favorite_genres limit default
GenreBookLimit == 500  \* LIMIT 500 of the genre candidates query
NeighbourCap == 10     \* similar_users[:10]
ScoredCap == 1000      \* list(candidate_isbns)[:1000]
HighRating == 7        \* rating >= 7

SnapUsers == 1..NumUsers
SnapBooks == 1..NumBooks
Genres == 1..NumGenres

\* catalogue of the snapshot: root genres, authors and price of a book
book_genres(b) == {((b - 1) % NumGenres) + 1}

book_authors(b) == <<((b - 1) % NumAuthors) + 1>>

book_price(b) == 10 + 4 * (b % 3)

\* rating histories of the snapshot: a shape over the first 'extent' books
Shapes == {"up", "down", "flat", "step"}

shape_rating(shape, b) ==
    IF shape = "up" THEN 6 + (b % 4)
    ELSE IF shape = "down" THEN 9 - (b % 4)
    ELSE IF shape = "step" THEN 7 + (b % 2)
    ELSE IF shape = "odd" THEN 5 + 3 * (b % 2)
    ELSE 8

Histories ==
    {[shape |-> "up", extent |-> 0],
     [shape |-> "up", extent |-> MinCommonBooks],
     [shape |-> "up", extent |-> NumBooks],
     [shape |-> "down", extent |-> NumBooks],
     [shape |-> "flat", extent |-> NumBooks]}

\* the row that the rating scripts insert: sequence numbers are MAX + 1
new_rating_row(rows, user_id, isbn, rating) ==
    [user_id |-> user_id, isbn |-> isbn, rating |-> rating,
     r_seq_user |-> next_seq_user(rows, user_id),
     r_seq_book |-> next_seq_book(rows, isbn),
     r_cat |-> r_cat(rating)]

\* the ratings table in which user u has history h[u]
snapshot_ratings(h) ==
    LET n == Cardinality(DOMAIN h) * NumBooks
        rows[k \in 0..n] ==
            IF k = 0 THEN <<>>
            ELSE LET u == ((k - 1) \div NumBooks) + 1
                     b == ((k - 1) % NumBooks) + 1
                     prev == rows[k - 1]
                 IN  IF b <= h[u].extent
                     THEN Append(prev,
                            new_rating_row(prev, u, b,
                                           shape_rating(h[u].shape, b)))
                     ELSE prev
    IN  rows[n]

\* the documents of the snapshot: the loader's shape (rating_metrics only),
\* or with the top-level genres / authors / price that content_based_score
\* reads
snapshot_doc(b, with_content) ==
    IF with_content
    THEN [rating_metrics |-> initial_rating_metrics,
          genres |-> book_genres(b),
          authors |-> authors_text(book_authors(b), "repr"),
          price |-> book_price(b)]
    ELSE [rating_metrics |-> initial_rating_metrics]

snapshot_metadata(rows, with_content) ==
    LET docs[b \in 0..NumBooks] ==
            IF b = 0 THEN [x \in SnapBooks |-> snapshot_doc(x, with_content)]
            ELSE book_metrics_updated(docs[b - 1], rows, b)
    IN  docs[NumBooks]

\* ----------------------------------------------------- repository reads
rated_isbns_of(rows, u) ==
    {rows[i].isbn : i \in {j \in 1..Len(rows) : rows[j].user_id = u}}

\* get_user_ratings: {row[0]: row[1] for row in rows}; the last row of a
\* pair wins
RECURSIVE get_user_ratings(_, _)
get_user_ratings(rows, u) ==
    IF rows = <<>> THEN <<>>
    ELSE LET last == rows[Len(rows)]
             front == get_user_ratings(SubSeq(rows, 1, Len(rows) - 1), u)
         IN  IF last.user_id = u THEN (last.isbn :> last.rating) @@ front
             ELSE front

\* the possible results of ORDER BY count DESC LIMIT n over the keys G
TopByCount(G, count, n) ==
    IF Cardinality(G) <= n THEN {G}
    ELSE {T \in SUBSET G :
            /\ Cardinality(T) = n
            /\ \A g \in T, x \in G \ T : count[g] >= count[x]}

\* get_user_favorite_genres(user_id): the possible result sets
get_user_favorite_genres(rows, u) ==
    LET count(g) ==
            Cardinality({i \in 1..Len(rows) :
                           /\ rows[i].user_id = u
                           /\ rows[i].rating >= HighRating
                           /\ g \in book_genres(rows[i].isbn)})
        G == {g \in Genres : count(g) > 0}
    IN  TopByCount(G, [g \in G |-> count(g)], GenreLimit)

\* get_user_preferences(user_id): None without a "preferences" sub-document
get_user_preferences(profiles, u) ==
    IF u \in DOMAIN profiles /\ "preferences" \in DOMAIN profiles[u]
    THEN profiles[u].preferences
    ELSE [none |-> TRUE]

\* --------------------------------------------------- neighbour similarity
RECURSIVE SumProducts(_, _, _)
SumProducts(x, y, S) ==
    IF S = {} THEN 0
    ELSE LET b == CHOOSE e \in S : TRUE
         IN  x[b] * y[b] + SumProducts(x, y, S \ {b})

\* n * sum(x*y) - sum(x) * sum(y) over the common books: n times the sum of
\* products of the mean-centred values
CoMoment(x, y, common) ==
    LET one == [b \in common |-> 1] @@ <<>>
    IN  Cardinality(common) * SumProducts(x, y, common)
            - SumProducts(x, one, common) * SumProducts(y, one, common)

\* correlation = numerator / sqrt(target_sq * candidate_sq), truncated to
\* hundredths (0 for a negative numerator, which the cutoff discards)
correlation_centi(numerator, target_sq, candidate_sq) ==
    IF numerator <= 0 THEN 0
    ELSE Cardinality({c \in 1..100 :
            c * c * target_sq * candidate_sq <= 10000 * numerator * numerator})

\* correlation > 0.3
above_cutoff(numerator, target_sq, candidate_sq) ==
    /\ numerator > 0
    /\ 100 * numerator * numerator > 9 * target_sq * candidate_sq

\* SELECT DISTINCT user_id FROM ratings WHERE isbn IN :isbns AND user_id != t
candidate_users(rows, target) ==
    LET isbns == rated_isbns_of(rows, target)
    IN  {rows[i].user_id :
            i \in {j \in 1..Len(rows) :
                     /\ rows[j].isbn \in isbns
                     /\ rows[j].user_id # target}}

\* the Pearson terms of a candidate against the target
pearson(target_ratings, candidate_ratings) ==
    LET common_books == DOMAIN target_ratings \cap DOMAIN candidate_ratings
    IN  [common_books |-> Cardinality(common_books),
         numerator |-> CoMoment(target_ratings, candidate_ratings, common_books),
         target_sq |-> CoMoment(target_ratings, target_ratings, common_books),
         candidate_sq |-> CoMoment(candidate_ratings, candidate_ratings,
                                   common_books)]

\* mutant: the sums of squares are not tested
has_variance_unchecked(p) == TRUE

\* target_sq > 0 and candidate_sq > 0 (not target_sq == 0 or candidate_sq == 0)
has_variance(p) == p.target_sq > 0 /\ p.candidate_sq > 0

\* the loop over the candidates: the entries appended to similar_users
RECURSIVE similar_scan(_, _, _, _)
similar_scan(rows, target_ratings, min_common_books, candidates) ==
    IF candidates = <<>> THEN <<>>
    ELSE LET candidate_id == candidates[Len(candidates)]
             front == similar_scan(rows, target_ratings, min_common_books,
                         SubSeq(candidates, 1, Len(candidates) - 1))
             p == pearson(target_ratings, get_user_ratings(rows, candidate_id))
         IN  IF /\ p.common_books >= min_common_books
                /\ has_variance(p)
                /\ above_cutoff(p.numerator, p.target_sq, p.candidate_sq)
             THEN Append(front,
                    [user_id |-> candidate_id,
                     correlation |-> correlation_centi(p.numerator, p.target_sq,
                                                       p.candidate_sq),
                     common_books |-> p.common_books])
             ELSE front

\* target_sq * candidate_sq of the candidates for which the loop reaches the
\* division numerator / denominator
similar_divisors(rows, target, min_common_books, cap, order) ==
    LET target_ratings == get_user_ratings(rows, target)
        pool == SubSeq(order, 1, Min(cap, Len(order)))
        terms == {pearson(target_ratings, get_user_ratings(rows, pool[i])) :
                    i \in 1..Len(pool)}
    IN  IF DOMAIN target_ratings = {} THEN {}
        ELSE {p.target_sq * p.candidate_sq :
                p \in {q \in terms : /\ q.common_books >= min_common_books
                                     /\ has_variance(q)}}

\* mutant: the list is cut to the limit without the sort
similar_users_list_unsorted(rows, target, min_common_books, cap, limit, order) ==
    LET target_ratings == get_user_ratings(rows, target)
        found == similar_scan(rows, target_ratings, min_common_books,
                              SubSeq(order, 1, Min(cap, Len(order))))
    IN  IF DOMAIN target_ratings = {} THEN <<>>
        ELSE SubSeq(found, 1, Min(limit, Len(found)))

\* the similar_users list of find_similar_users / find_similar_users_simple
\* when the candidates query hands out its rows in the order 'order'
similar_users_list(rows, target, min_common_books, cap, limit, order) ==
    LET target_ratings == get_user_ratings(rows, target)
        found == similar_scan(rows, target_ratings, min_common_books,
                              SubSeq(order, 1, Min(cap, Len(order))))
        sorted == SortDesc(found, [j \in 1..Len(found) |-> found[j].correlation])
    IN  IF DOMAIN target_ratings = {} THEN <<>>
        ELSE SubSeq(sorted, 1, Min(limit, Len(sorted)))

\* the profiles of the snapshot; with_content adds the "preferences" that
\* content_based_score reads (top_authors, avg_price)
snapshot_profile(rows, u, with_content) ==
    LET mine == RowsOfUser(rows, u)
        liked == {a \in Authors :
                    \E i \in 1..Len(mine) :
                        /\ mine[i].rating >= HighRating
                        /\ book_authors(mine[i].isbn)[1] = a}
        top == [i \in 1..Cardinality(liked) |->
                  AuthorNames[CHOOSE a \in liked :
                     Cardinality({x \in liked : x < a}) = i - 1]]
        profile == [reader_level |-> "new_reader",
                    has_ratings |-> Len(mine) > 0,
                    total_ratings |-> Len(mine),
                    total_books |-> Len(mine),
                    explicit_ratings |-> Len(mine)]
    IN  IF with_content
        THEN profile @@ [preferences |-> [top_authors |-> top, avg_price |-> 14]]
        ELSE profile

\* ----------------------------------------------------- component scores
\* scores are fixed-point, in thousandths

\* floor(500 * ln(n)): math.log(n) * 0.5 in thousandths
LnHalfMilli(n) == <<0, 346, 549, 693, 804, 895, 972, 1039, 1098, 1151>>[n]

\* content_based_score(book_meta, user_prefs, user_genres): the points
content_based_score(book_meta, user_prefs, user_genres) ==
    LET genre_matches ==
            IF user_genres # {} /\ "genres" \in DOMAIN book_meta
            THEN Cardinality(user_genres \cap book_meta.genres) ELSE 0
        book_authors_text ==
            IF "authors" \in DOMAIN book_meta THEN book_meta.authors ELSE <<>>
        author_points ==
            IF "top_authors" \in DOMAIN user_prefs
               /\ \E i \in 1..Min(3, Len(user_prefs.top_authors)) :
                    \E j \in 1..Len(book_authors_text) :
                        book_authors_text[j] = user_prefs.top_authors[i]
            THEN 8 ELSE 0
        price_points ==
            IF "avg_price" \in DOMAIN user_prefs
               /\ "price" \in DOMAIN book_meta
               /\ book_meta.price # 0
               /\ Abs(book_meta.price - user_prefs.avg_price) <= 5
            THEN 3 ELSE 0
    IN  genre_matches * 10 + author_points + price_points

\* collaborative_score(isbn, similar_users): sum of rating * correlation
\* over the similar users who rated the book 7 or more, in hundredths
collaborative_score(rows, isbn, similar_users) ==
    SumSeq([i \in 1..Len(similar_users) |->
        LET P(x) == x.user_id = similar_users[i].user_id /\ x.isbn = isbn
            found == SelectSeq(rows, P)
        IN  IF found # <<>> /\ found[1].rating >= HighRating
            THEN found[1].rating * similar_users[i].correlation ELSE 0])

\* popularity_score(book_meta): rating_score + log(max(r_count, 1)) * 0.5
popularity_score(book_meta) ==
    IF "rating_metrics" \notin DOMAIN book_meta THEN 0
    ELSE book_meta.rating_metrics.rating_score * 10
         + LnHalfMilli(Max(book_meta.rating_metrics.r_count, 1))

Sign(x) == IF x < 0 THEN -1 ELSE IF x > 0 THEN 1 ELSE 0

\* mutant: the content score is left out of the weighted sum
total_score_without_content(content_sc, collab_sc, pop_sc, w, den) ==
    Sign(den) * (collab_sc * 10 * w[2] + pop_sc * w[3])

\* content_sc * content_weight + collab_sc * collab_weight + pop_sc *
\* popularity_weight for the weights w[1]/den, w[2]/den, w[3]/den; the value
\* kept is the score times |den|, which orders the books as the score does
total_score(content_sc, collab_sc, pop_sc, w, den) ==
    Sign(den) * (content_sc * 1000 * w[1] + collab_sc * 10 * w[2] + pop_sc * w[3])

\* mutant: the rated books are not removed
hybrid_candidates_keep_rated(rows, catalogue, user_id, user_genres, genre_books, similar_users) ==
    LET liked(u) ==
            LET sim_ratings == get_user_ratings(rows, u)
            IN  {b \in DOMAIN sim_ratings : sim_ratings[b] >= HighRating}
        from_similar ==
            UNION {liked(similar_users[i].user_id) :
                   i \in 1..Min(NeighbourCap, Len(similar_users))}
    IN  (IF user_genres # {} THEN genre_books ELSE {}) \cup from_similar

\* the candidate set of get_hybrid_recommendations: books of the favourite
\* genres, books that the first ten similar users rated 7 or more, minus the
\* books the user rated
hybrid_candidates(rows, catalogue, user_id, user_genres, genre_books, similar_users) ==
    LET liked(u) ==
            LET sim_ratings == get_user_ratings(rows, u)
            IN  {b \in DOMAIN sim_ratings : sim_ratings[b] >= HighRating}
        from_similar ==
            UNION {liked(similar_users[i].user_id) :
                   i \in 1..Min(NeighbourCap, Len(similar_users))}
    IN  ((IF user_genres # {} THEN genre_books ELSE {}) \cup from_similar)
            \ rated_isbns_of(rows, user_id)

\* the rows that the genre candidates query (LIMIT 500, no ORDER BY) may
\* return
genre_book_sets(catalogue, user_genres) ==
    LET all == {b \in catalogue : book_genres(b) \cap user_genres # {}}
    IN  IF Cardinality(all) <= GenreBookLimit THEN {all}
        ELSE {T \in SUBSET all : Cardinality(T) = GenreBookLimit}

\* get_hybrid_recommendations once the unordered reads are fixed: 'order' is
\* the iteration order of the candidate set
hybrid_scored(rows, meta, profiles, user_id, limit, w, den, user_genres, similar_users, order) ==
    LET user_prefs == get_user_preferences(profiles, user_id)
        capped == SubSeq(order, 1, Min(ScoredCap, Len(order)))
        has_meta(b) == b \in DOMAIN meta
        found == SelectSeq(capped, has_meta)
        scored == List([i \in 1..Len(found) |->
            LET isbn == found[i]
                content_sc == content_based_score(meta[isbn], user_prefs,
                                                  user_genres)
                collab_sc == collaborative_score(rows, isbn, similar_users)
                pop_sc == popularity_score(meta[isbn])
            IN  [isbn |-> isbn,
                 total_score |-> total_score(content_sc, collab_sc, pop_sc, w, den),
                 content_score |-> content_sc,
                 collab_score |-> collab_sc,
                 popularity_score |-> pop_sc]])
        sorted == SortDesc(scored,
                           [j \in 1..Len(scored) |-> scored[j].total_score])
    IN  SubSeq(sorted, 1, Min(limit, Len(sorted)))

\* every list that get_hybrid_recommendations may return
get_hybrid_recommendations(rows, catalogue, meta, profiles, user_id, limit, w, den) ==
    UNION {UNION {UNION {
        LET similar_users ==
                similar_users_list(rows, user_id, MinCommonBooks,
                                   SimpleCandidateCap, SimilarLimit, corder)
            candidate_isbns ==
                hybrid_candidates(rows, catalogue, user_id, user_genres,
                                  genre_books, similar_users)
        IN  {hybrid_scored(rows, meta, profiles, user_id, limit, w, den,
                           user_genres, similar_users, order) :
                order \in Perms(candidate_isbns)} :
        genre_books \in genre_book_sets(catalogue, user_genres)} :
        corder \in Perms(candidate_users(rows, user_id))} :
        user_genres \in get_user_favorite_genres(rows, user_id)}

\* the functions a hybrid request goes through
HybridCalls ==
    {"get_user_preferences", "get_user_favorite_genres", "get_user_ratings",
     "find_similar_users_simple"}


\* ------------------------------------------------- recommendation requests
\* command-line inputs of the scripts
WeightChoices ==
    {<<4, 4, 2>>, <<1, 0, 0>>, <<0, 0, 0>>, <<-1, 1, 1>>, <<1, -1, 0>>}

LimitChoices == {1, 10}

MinCommonChoices == {MinCommonBooks - 1, MinCommonBooks}

VARIABLES
    req,              \* the recommendation request that ran last
    req_prev          \* the same request run before it, if it was repeated

ReqIdle == [op |-> None, user_id |-> 0, limit |-> 0, weights |-> <<0, 0, 0>>,
            outcome |-> None, result |-> <<>>, rated |-> {}, calls |-> {}]

\* main() of the hybrid script: the weights are divided by their sum, then
\* get_hybrid_recommendations runs with the normalised weights
hybrid_main_outcomes(user_id, limit, w) ==
    LET total_weight == w[1] + w[2] + w[3]
        base == [ReqIdle EXCEPT !.op = "hybrid_main", !.user_id = user_id,
                                !.limit = limit, !.weights = w,
                                !.rated = rated_isbns_of(ratings, user_id)]
    IN  IF total_weight = 0
        THEN {[base EXCEPT !.outcome = "ZeroDivisionError"]}
        ELSE {[base EXCEPT !.outcome = IF r = <<>> THEN "no_recommendations"
                                       ELSE "ok",
                           !.result = r,
                           !.calls = HybridCalls] :
                r \in get_hybrid_recommendations(ratings, books, books_metadata,
                          users_profiles, user_id, limit, w, total_weight)}

hybrid_main(user_id, limit, w) ==
    /\ req.op = None
    /\ req' \in hybrid_main_outcomes(user_id, limit, w)
    /\ UNCHANGED req_prev

\* the same command line run a second time on the same stores
hybrid_main_again ==
    /\ req.op = "hybrid_main"
    /\ req_prev.op = None
    /\ req_prev' = req
    /\ req' \in hybrid_main_outcomes(req.user_id, req.limit, req.weights)

\* get_hybrid_recommendations called with its own weights, in tenths
hybrid_call(user_id, limit, w) ==
    /\ req.op = None
    /\ \E r \in get_hybrid_recommendations(ratings, books, books_metadata,
                    users_profiles, user_id, limit, w, 10) :
         req' = [ReqIdle EXCEPT !.op = "get_hybrid_recommendations",
                                !.user_id = user_id, !.limit = limit,
                                !.weights = w, !.outcome = "ok", !.result = r,
                                !.rated = rated_isbns_of(ratings, user_id),
                                !.calls = HybridCalls]
    /\ UNCHANGED req_prev

\* get_recommendations_from_similar_users(target_user_id, similar_users,
\* limit): scores in hundredths; the sort key (len(raters), score) is kept
\* as one number
get_recommendations_from_similar_users(rows, target_user_id, similar_users, limit) ==
    LET rated_isbns == rated_isbns_of(rows, target_user_id)
        liked(i) ==
            LET P(x) == /\ x.user_id = similar_users[i].user_id
                        /\ x.rating >= HighRating
                        /\ x.isbn \notin rated_isbns
            IN  SelectSeq(rows, P)
        hits[i \in 0..Len(similar_users)] ==
            IF i = 0 THEN <<>>
            ELSE LET l == liked(i)
                 IN  hits[i - 1] \o
                     List([j \in 1..Len(l) |->
                        [isbn |-> l[j].isbn,
                         weighted_score |-> l[j].rating
                                              * similar_users[i].correlation]])
        all == hits[Len(similar_users)]
        isbns == Unique(List([j \in 1..Len(all) |-> all[j].isbn]))
        scored_books == List([k \in 1..Len(isbns) |->
            LET P(h) == h.isbn = isbns[k]
                mine == SelectSeq(all, P)
            IN  [isbn |-> isbns[k],
                 raters |-> Len(mine),
                 score |-> SumSeq(List([j \in 1..Len(mine) |->
                                          mine[j].weighted_score]))]])
        sorted == SortDesc(scored_books,
                    [j \in 1..Len(scored_books) |->
                        scored_books[j].raters * 1000000 + scored_books[j].score])
    IN  SubSeq(sorted, 1, Min(limit, Len(sorted)))

\* main() of the collaborative script
collab_main(user_id, limit, min_common) ==
    /\ req.op = None
    /\ \E corder \in Perms(candidate_users(ratings, user_id)) :
         LET similar_users ==
                similar_users_list(ratings, user_id, min_common, CandidateCap,
                                   SimilarLimit, corder)
             r == get_recommendations_from_similar_users(ratings, user_id,
                                                         similar_users, limit)
         IN  req' = [ReqIdle EXCEPT
                !.op = "collab_main", !.user_id = user_id, !.limit = limit,
                !.outcome = IF similar_users = <<>> THEN "no_similar_users"
                            ELSE IF r = <<>> THEN "no_recommendations"
                            ELSE "ok",
                !.result = IF similar_users = <<>> THEN <<>> ELSE r,
                !.rated = rated_isbns_of(ratings, user_id),
                !.calls = {"find_similar_users",
                           "get_recommendations_from_similar_users"}]
    /\ UNCHANGED req_prev

\* ------------------------------------------------ neighbour finder calls
NumSimUsers == 3       \* users of a snapshot handed to the neighbour finder

SimUsers == 1..NumSimUsers
SimHistories == Histories \cup {[shape |-> "step", extent |-> NumBooks]}
SimLimits == {1, SimilarLimit}
SimMinCommon == {MinCommonBooks, MinCommonBooks + 1}
\* the snapshots give every user every history, so the calls are made for
\* one target
SimTargets == {1}

VARIABLE sim          \* the call of a neighbour finder that ran

SimIdle == [op |-> None, user_id |-> 0, min_common_books |-> 0, limit |-> 0,
            order |-> <<>>, result |-> <<>>, divisors |-> {}]

\* a neighbour finder with candidate cap 'cap' run on the ratings table
similar_call(op, cap, target_user_id, min_common_books, limit) ==
    /\ sim.op = None
    /\ \E order \in Perms(candidate_users(ratings, target_user_id)) :
         sim' = [op |-> op, user_id |-> target_user_id,
                 min_common_books |-> min_common_books, limit |-> limit,
                 order |-> SubSeq(order, 1, Min(cap, Len(order))),
                 result |-> similar_users_list(ratings, target_user_id,
                                min_common_books, cap, limit, order),
                 divisors |-> similar_divisors(ratings, target_user_id,
                                min_common_books, cap, order)]

find_similar_users(target_user_id, min_common_books, limit) ==
    similar_call("find_similar_users", CandidateCap, target_user_id, min_common_books, limit)

find_similar_users_simple(target_user_id, min_common_books, limit) ==
    similar_call("find_similar_users_simple", SimpleCandidateCap, target_user_id, min_common_books, limit)

\* ================================================= evaluation metrics
NumItems == 3          \* distinct items of a recommendation list
MaxList == 3           \* length of a recommendation list handed to a metric

MetItems == 1..NumItems
MetLists == UNION {[1..n -> MetItems] : n \in 0..MaxList}
MetKs == -1..(MaxList + 1)

VARIABLE met         \* a metric call: its arguments, the function, the result

\* a float result as the quotient num / den of the division that produced
\* it; 0.0 is 0 / 1
Zero == [outcome |-> "ok", num |-> 0, den |-> 1]

\* num / den in Python: ZeroDivisionError for a zero divisor
Quotient(num, den) ==
    IF den = 0 THEN [outcome |-> "ZeroDivisionError", num |-> 0, den |-> 0]
    ELSE [outcome |-> "ok", num |-> num, den |-> den]

\* recommended[:k]: a negative k drops the last -k items
top_k(recommended, k) ==
    IF k >= 0 THEN SubSeq(recommended, 1, Min(k, Len(recommended)))
    ELSE SubSeq(recommended, 1, Max(0, Len(recommended) + k))

\* sum(1 for x in items if x in relevant)
hits_in(items, relevant) ==
    Cardinality({i \in 1..Len(items) : items[i] \in relevant})

precision_at_k(recommended, relevant, k) ==
    IF k <= 0 THEN Zero
    ELSE Quotient(hits_in(top_k(recommended, k), relevant), k)

\* mutant: no test of the relevant set
recall_at_k_unguarded(recommended, relevant, k) ==
    Quotient(hits_in(top_k(recommended, k), relevant), Cardinality(relevant))

recall_at_k(recommended, relevant, k) ==
    IF relevant = {} THEN Zero
    ELSE Quotient(hits_in(top_k(recommended, k), relevant),
                  Cardinality(relevant))

\* score is kept times 840, a multiple of every rank up to 8
average_precision(recommended, relevant, k) ==
    LET top == top_k(recommended, k)
        score == SumSeq(List([i \in 1..Len(top) |->
                    IF top[i] \in relevant
                    THEN (840 * hits_in(SubSeq(top, 1, i), relevant)) \div i
                    ELSE 0]))
    IN  Quotient(score, 840 * Max(1, Cardinality(relevant)))

\* 1 / math.log2(i + 1) in ten-thousandths, rounded down
Discount(i) == <<10000, 6309, 5000, 4306, 3868, 3562, 3333, 3154>>[i]

\* dcg(items) of ndcg_at_k: binary gain of the item at rank i, discounted
dcg(items, relevant) ==
    SumSeq(List([i \in 1..Len(items) |->
        IF items[i] \in relevant THEN Discount(i) ELSE 0]))

\* mutant: the sort without reverse=True
ideal_of_ascending(items, relevant) ==
    LET In(x) == x \in relevant
        Out(x) == x \notin relevant
    IN  SelectSeq(items, Out) \o SelectSeq(items, In)

\* sorted(items, key=lambda x: (x in relevant), reverse=True): stable, the
\* relevant items first
ideal_of(items, relevant) ==
    LET In(x) == x \in relevant
        Out(x) == x \notin relevant
    IN  SelectSeq(items, In) \o SelectSeq(items, Out)

ndcg_at_k(recommended, relevant, k) ==
    LET top == top_k(recommended, k)
        idcg == dcg(ideal_of(top, relevant), relevant)
    IN  IF idcg = 0 THEN Zero
        ELSE Quotient(dcg(top, relevant), idcg)

MetIdle == [recommended |-> <<>>, relevant |-> {}, k |-> 0, fn |-> None,
            result |-> Zero]

\* the four metrics applied to the arguments drawn in the initial state
call_precision_at_k ==
    /\ met.fn = None
    /\ met' = [met EXCEPT !.fn = "precision_at_k",
                 !.result = precision_at_k(met.recommended, met.relevant, met.k)]

call_recall_at_k ==
    /\ met.fn = None
    /\ met' = [met EXCEPT !.fn = "recall_at_k",
                 !.result = recall_at_k(met.recommended, met.relevant, met.k)]

call_average_precision ==
    /\ met.fn = None
    /\ met' = [met EXCEPT !.fn = "average_precision",
                 !.result = average_precision(met.recommended, met.relevant,
                                              met.k)]

call_ndcg_at_k ==
    /\ met.fn = None
    /\ met' = [met EXCEPT !.fn = "ndcg_at_k",
                 !.result = ndcg_at_k(met.recommended, met.relevant, met.k)]

\* ================================================ cold-start recommendations
NumColdUsers == 6      \* rows of the users table read by the cold-start script

ColdStartThreshold == 20     \* if rating_count > 20
CohortLimit == 100           \* find_similar_demographic_users limit default
MinDemographicCount == 5     \* HAVING demographic_count >= 5
FavoritesMinRating == 7      \* get_demographic_favorites min_rating default
FavoritesLimit == 100        \* get_demographic_favorites limit default
ColdLimitDefault == 15       \* --limit default
PopularityTenths == 3        \* --popularity_weight default 0.3

ColdUsers == 1..NumColdUsers
ColdTarget == 1
\* a book outside the books 1..ColdStartThreshold + 1 that the target rates
NewBook == ColdStartThreshold + 2
ColdCounts == {0, 1, ColdStartThreshold, ColdStartThreshold + 1}
ColdLimits == {1, ColdLimitDefault}
CohortLimits == {2, CohortLimit}

\* the other users by kind: the age group of kinds 1..3 and of kinds 4..6,
\* and what they rated: nothing, book 1, or book 1 and NewBook
kind_age_group(kd) == IF kd <= 3 THEN "young_adult_18_24" ELSE "adult_25_34"

kind_rows(u, kd) ==
    LET shape == ((kd - 1) % 3) + 1
    IN  IF shape = 1 THEN <<>>
        ELSE IF shape = 2 THEN <<[user_id |-> u, isbn |-> 1, rating |-> 8]>>
        ELSE <<[user_id |-> u, isbn |-> 1, rating |-> 9],
               [user_id |-> u, isbn |-> NewBook, rating |-> 8]>>

\* the kinds of the users 2..n; the users are alike, so kinds do not go down
\* with the user id
ColdKinds(n) ==
    {f \in [2..n -> 1..6] : \A u \in 2..(n - 1) : f[u] <= f[u + 1]}

\* the users table: age_group and gender of every user
cold_users(age_group, gender, kinds) ==
    [u \in ColdUsers |->
        IF u = ColdTarget THEN [age_group |-> age_group, gender |-> gender]
        ELSE [age_group |-> kind_age_group(kinds[u]), gender |-> "female"]]

\* the ratings table: the target rated the books 1..count
cold_ratings(count, kinds) ==
    LET rows[u \in ColdUsers] ==
            IF u = ColdTarget
            THEN [b \in 1..count |->
                    [user_id |-> ColdTarget, isbn |-> b, rating |-> 8]]
            ELSE LET prev == rows[u - 1] IN prev \o kind_rows(u, kinds[u])
    IN  rows[NumColdUsers]

VARIABLES
    cold_db,          \* the tables and documents the cold-start script reads
    cold              \* the call of the cold-start script that ran

coldVars == <<cold_db, cold>>

NoCohort == [demographic |-> {}, random |-> {}]

\* the stores of the cold-start script before the loader ran
ColdEmptyDb == [users |-> <<>>, ratings |-> <<>>, with_metrics |-> FALSE]

ColdIdle == [op |-> None, user_id |-> 0, limit |-> 0, outcome |-> None,
             rating_count |-> 0, similar_users |-> NoCohort, result |-> <<>>,
             rated |-> {}]

\* what get_user_demographics returns for a user without a row
NoDemographics == [age_group |-> None, gender |-> None, found |-> FALSE]

\* SELECT age_group, gender ... WHERE user_id = :user_id
get_user_demographics(db, user_id) ==
    IF user_id \in DOMAIN db.users
    THEN [age_group |-> db.users[user_id].age_group,
          gender |-> db.users[user_id].gender, found |-> TRUE]
    ELSE NoDemographics

\* SELECT COUNT(*) FROM ratings WHERE user_id = :user_id
get_user_rating_count(db, user_id) == Len(RowsOfUser(db.ratings, user_id))

\* has_ratings = TRUE: set by the first rating a user inserts
active_users(db) ==
    {u \in DOMAIN db.users : RowsOfUser(db.ratings, u) # <<>>}

\* LIMIT n on a query without ORDER BY, or with ORDER BY RAND(): any n rows
\* of the rows that qualify, all of them when there are no more than n
limited(S, n) == {T \in SUBSET S : Cardinality(T) = Min(n, Cardinality(S))}

\* the lists that find_similar_demographic_users may return, as the user ids
\* of the rows marked "demographic" and of the rows marked "random"; no
\* caller reads the order of the list
find_similar_demographic_users(db, demographics, limit) ==
    LET by_age == demographics.age_group # None
        by_gender == demographics.gender # None
        active == active_users(db)
        matching == {u \in active :
                        /\ by_age =>
                             db.users[u].age_group = demographics.age_group
                        /\ by_gender =>
                             db.users[u].gender = demographics.gender}
    IN  IF ~by_age /\ ~by_gender
        THEN {[demographic |-> {}, random |-> R] : R \in limited(active, limit)}
        ELSE UNION {
               IF Cardinality(D) < limit \div 2
               THEN {[demographic |-> D, random |-> R] :
                        R \in limited(active, limit - Cardinality(D))}
               ELSE {[demographic |-> D, random |-> {}]} :
               D \in limited(matching, limit)}

\* the lists that get_demographic_favorites may return: rows that tie on
\* (demographic_count, demographic_avg) come in any order; demographic_avg
\* is kept as the sum of the ratings of the group
get_demographic_favorites(db, similar_users, min_rating, limit) ==
    LET user_ids == similar_users.demographic \cup similar_users.random
        Liked(r) == r.user_id \in user_ids /\ r.rating >= min_rating
        liked == SelectSeq(db.ratings, Liked)
        group(b) == RatingsOf(RowsOfBook(liked, b))
        isbns == {b \in {liked[i].isbn : i \in 1..Len(liked)} :
                    Len(group(b)) >= MinDemographicCount}
        fav(b) == [isbn |-> b, demographic_count |-> Len(group(b)),
                   demographic_sum |-> SumSeq(group(b))]
        key(f) == f.demographic_count * 1000000
                    + (10000 * f.demographic_sum) \div f.demographic_count
    IN  IF user_ids = {} THEN {<<>>}
        ELSE {LET rows == [i \in 1..Len(p) |-> fav(p[i])]
                  keys == [i \in 1..Len(p) |-> key(rows[i])]
              IN  SubSeq(SortDesc(rows, keys), 1, Min(limit, Len(p))) :
              p \in Perms(isbns)}

\* rating_metrics.rating_score of the document of a book, in hundredths
global_rating_score(db, isbn) ==
    LET l == book_metrics_locals(db.ratings, isbn)
    IN  Round2(l.score_num, l.score_den)

\* boost_with_global_popularity: total_score in hundredths, then the stable
\* sort on it, largest first
boost_with_global_popularity(db, favorites, popularity_tenths) ==
    LET boosted == [i \in 1..Len(favorites) |->
            LET fav == favorites[i]
                rating_score == global_rating_score(db, fav.isbn)
                base_score == 100 * fav.demographic_sum
            IN  IF db.with_metrics
                THEN [isbn |-> fav.isbn,
                      demographic_count |-> fav.demographic_count,
                      total_score |-> base_score
                                        + rating_score * popularity_tenths]
                ELSE [isbn |-> fav.isbn,
                      demographic_count |-> fav.demographic_count,
                      total_score |-> base_score]]
    IN  SortDesc(boosted, [i \in 1..Len(boosted) |-> boosted[i].total_score])

\* main() of the cold-start script: the calls it may end in
cold_main_outcomes(db, user_id, limit) ==
    LET demographics == get_user_demographics(db, user_id)
        rating_count == get_user_rating_count(db, user_id)
        base == [ColdIdle EXCEPT !.op = "main", !.user_id = user_id,
                                 !.limit = limit,
                                 !.rated = rated_isbns_of(db.ratings, user_id)]
        counted == [base EXCEPT !.rating_count = rating_count]
    IN  IF ~demographics.found
        THEN {[base EXCEPT !.outcome = "user_not_found"]}
        ELSE IF rating_count > ColdStartThreshold
        THEN {[counted EXCEPT !.outcome = "not_cold_start"]}
        ELSE UNION {
           IF similar_users = NoCohort
           THEN {[counted EXCEPT !.outcome = "no_similar_users"]}
           ELSE {LET boosted == boost_with_global_popularity(db, favorites,
                                    PopularityTenths)
                 IN  IF favorites = <<>>
                     THEN [counted EXCEPT !.outcome = "no_recommendations",
                                          !.similar_users = similar_users]
                     ELSE [counted EXCEPT !.outcome = "ok",
                                          !.similar_users = similar_users,
                                          !.result = top_k(boosted, limit)] :
                 favorites \in get_demographic_favorites(db, similar_users,
                                   FavoritesMinRating, FavoritesLimit)} :
           similar_users \in find_similar_demographic_users(db, demographics,
                                 CohortLimit)}

cold_main(user_id, limit) ==
    /\ cold.op = None
    /\ cold' \in cold_main_outcomes(cold_db, user_id, limit)
    /\ UNCHANGED cold_db

\* find_similar_demographic_users called with the demographics of the
\* target and a limit of its own
cohort_call(limit) ==
    /\ cold.op = None
    /\ ColdTarget \in DOMAIN cold_db.users
    /\ \E similar_users \in find_similar_demographic_users(cold_db,
              get_user_demographics(cold_db, ColdTarget), limit) :
         cold' = [ColdIdle EXCEPT
                    !.op = "find_similar_demographic_users",
                    !.user_id = ColdTarget, !.limit = limit,
                    !.outcome = "ok", !.similar_users = similar_users,
                    !.rating_count = get_user_rating_count(cold_db, ColdTarget),
                    !.rated = rated_isbns_of(cold_db.ratings, ColdTarget)]
    /\ UNCHANGED cold_db

\* ================================================== batch rating scripts
InactiveLimit == 5        \* find_users_without_ratings(limit=5)
PopularLimit == 20        \* LIMIT 20 of the popular-books query
UnratedLimit == 5         \* find_books_without_ratings(limit=5)
ActiveLimit == 20         \* LIMIT 20 of the active-users query

\* the ratings that np.random.choice draws in both batch handlers
BatchRatings == {0, 5, 6, 7, 8, 9, 10}

\* np.random.randint(3, 8) and np.random.randint(5, 11)
NumRatingsChoices == 3..7

NumRatersChoices == 5..10

\* SELECT .. FROM users WHERE has_ratings = FALSE LIMIT :limit
find_users_without_ratings(limit) ==
    limited({u \in DOMAIN users : ~users[u].has_ratings}, limit)

\* SELECT .. FROM books b LEFT JOIN ratings r .. WHERE r.isbn IS NULL LIMIT
find_books_without_ratings(limit) ==
    limited({b \in books : Len(RowsOfBook(ratings, b)) = 0}, limit)

\* books whose isbn is among the PopularLimit most rated isbns; ties at the
\* cut are broken by the server
popular_books ==
    LET rated == {ratings[i].isbn : i \in 1..Len(ratings)}
        n(b) == Len(RowsOfBook(ratings, b))
        tops == {T \in limited(rated, PopularLimit) :
                    \A b \in T, c \in rated \ T : n(b) >= n(c)}
    IN  {T \cap books : T \in tops}

\* SELECT user_id FROM users WHERE has_ratings = TRUE LIMIT 20
active_users_batch ==
    limited({u \in DOMAIN users : users[u].has_ratings}, ActiveLimit)

\* np.random.choice(pool, size=min(num, len(pool)), replace=False) for the
\* values of num in nums: the ordered samples without replacement
samples(pool, nums) ==
    UNION {Perms(sel) : sel \in {s \in SUBSET pool : \E num \in nums :
                                   Cardinality(s) = Min(num, Cardinality(pool))}}

\* the rows one user of add_ratings_for_inactive_users gets, as
\* <<user_id, isbn, rating>> in the order of insertion
selected_books_rows(user_id, popular) ==
    UNION {{[i \in 1..Len(p) |-> <<user_id, p[i], rs[i]>>] :
              rs \in [1..Len(p) -> BatchRatings]} :
           p \in samples(popular, NumRatingsChoices)}

\* the rows one book of add_ratings_for_unrated_books gets
selected_users_rows(isbn, active) ==
    UNION {{[i \in 1..Len(p) |-> <<p[i], isbn, rs[i]>>] :
              rs \in [1..Len(p) -> BatchRatings]} :
           p \in samples(active, NumRatersChoices)}

\* the runs of the loop over the users: one list of rows per run
RECURSIVE inactive_users_loop(_, _)
inactive_users_loop(order, popular) ==
    IF order = <<>> THEN {<<>>}
    ELSE {a \o b : a \in selected_books_rows(Head(order), popular),
                   b \in inactive_users_loop(Tail(order), popular)}

\* the runs of the loop over the books
RECURSIVE unrated_books_loop(_, _)
unrated_books_loop(order, active) ==
    IF order = <<>> THEN {<<>>}
    ELSE {a \o b : a \in selected_users_rows(Head(order), active),
                   b \in unrated_books_loop(Tail(order), active)}

\* the ratings table after the INSERTs of a run, each with MAX + 1 sequence
\* numbers read just before it
RECURSIVE insert_rows(_, _)
insert_rows(rows, todo) ==
    IF todo = <<>> THEN rows
    ELSE insert_rows(Append(rows, new_rating_row(rows, Head(todo)[1],
                                                  Head(todo)[2], Head(todo)[3])),
                     Tail(todo))

\* add_ratings_for_inactive_users(): rows for every user found, then the
\* MySQL flag of that user; no document of either collection is written
add_ratings_for_inactive_users ==
    /\ \E found \in find_users_without_ratings(InactiveLimit), popular \in popular_books :
         /\ found # {}
         /\ Len(ratings) + Cardinality(found) * Min(3, Cardinality(popular)) <= MaxRatings
         /\ \E order \in Perms(found) :
              \E todo \in inactive_users_loop(order, popular) :
                 /\ Len(ratings) + Len(todo) <= MaxRatings
                 /\ ratings' = insert_rows(ratings, todo)
         /\ users' = [u \in DOMAIN users |->
                        IF u \in found THEN [users[u] EXCEPT !.has_ratings = TRUE]
                        ELSE users[u]]
    /\ UNCHANGED <<books, books_metadata, users_profiles, ubm>>

\* add_ratings_for_unrated_books(): rows for every book found, from users
\* flagged active; neither flags nor documents are written
add_ratings_for_unrated_books ==
    /\ \E found \in find_books_without_ratings(UnratedLimit), active \in active_users_batch :
         /\ found # {}
         /\ Len(ratings) + Cardinality(found) * Min(5, Cardinality(active)) <= MaxRatings
         /\ \E order \in Perms(found) :
              \E todo \in unrated_books_loop(order, active) :
                 /\ Len(ratings) + Len(todo) <= MaxRatings
                 /\ ratings' = insert_rows(ratings, todo)
    /\ UNCHANGED <<users, books, books_metadata, users_profiles, ubm>>

\* ============================================= concurrent rating insertions
NumCallers == 2        \* processes that run insert_rating_and_update_metrics

Callers == 1..NumCallers

\* per caller: the statement it is at, its arguments, the sequence numbers it
\* fetched and the rows that its last metrics query returned
VARIABLE calls

CallIdle == [pc |-> "idle", user_id |-> 0, isbn |-> 0, rating |-> 0,
             r_seq_user |-> 0, r_seq_book |-> 0, seen |-> <<>>]

CallsIdle == [p \in Callers |-> CallIdle]

\* callers that will still INSERT a row
inserting == {p \in Callers : calls[p].pc \in {"select_seq", "insert"}}

\* insert_rating_and_update_metrics(user_id, isbn, rating) is entered
call_insert_rating(p, user_id, isbn, rating) ==
    /\ calls[p].pc = "idle"
    /\ Len(ratings) + Cardinality(inserting) < MaxRatings
    /\ user_id \in DOMAIN users
    /\ isbn \in books
    /\ calls' = [calls EXCEPT ![p] = [CallIdle EXCEPT !.pc = "select_seq",
                    !.user_id = user_id, !.isbn = isbn, !.rating = rating]]
    /\ UNCHANGED storeVars

\* the two SELECT COALESCE(MAX(..), 0) + 1 statements of the connection
select_seq(p) ==
    /\ calls[p].pc = "select_seq"
    /\ calls' = [calls EXCEPT ![p].pc = "insert",
                    ![p].r_seq_user = next_seq_user(ratings, calls[p].user_id),
                    ![p].r_seq_book = next_seq_book(ratings, calls[p].isbn)]
    /\ UNCHANGED storeVars

\* INSERT INTO ratings with the numbers fetched before, and commit
insert_row(p) ==
    /\ calls[p].pc = "insert"
    /\ ratings' = Append(ratings,
            [user_id |-> calls[p].user_id, isbn |-> calls[p].isbn,
             rating |-> calls[p].rating,
             r_seq_user |-> calls[p].r_seq_user,
             r_seq_book |-> calls[p].r_seq_book,
             r_cat |-> r_cat(calls[p].rating)])
    /\ calls' = [calls EXCEPT ![p].pc = "book_select"]
    /\ UNCHANGED <<users, books, books_metadata, users_profiles, ubm>>

\* update_book_metrics: the ratings of the book are read
book_select(p) ==
    /\ calls[p].pc = "book_select"
    /\ calls' = [calls EXCEPT ![p].pc = "book_update", ![p].seen = ratings]
    /\ UNCHANGED storeVars

\* update_book_metrics: update_one with the metrics of the rows read
book_update(p) ==
    /\ calls[p].pc = "book_update"
    /\ books_metadata' =
         book_metrics_updated(books_metadata, calls[p].seen, calls[p].isbn)
    /\ ubm' = book_metrics_locals(calls[p].seen, calls[p].isbn)
    /\ calls' = [calls EXCEPT ![p].pc = "user_select", ![p].seen = <<>>]
    /\ UNCHANGED <<users, books, ratings, users_profiles>>

\* update_user_metrics: the ratings of the user are read
user_select(p) ==
    /\ calls[p].pc = "user_select"
    /\ calls' = [calls EXCEPT ![p].pc = "user_update", ![p].seen = ratings]
    /\ UNCHANGED storeVars

\* update_user_metrics: update_one with the metrics of the rows read
user_update(p) ==
    /\ calls[p].pc = "user_update"
    /\ users_profiles' =
         user_metrics_updated(users_profiles, calls[p].seen, calls[p].user_id)
    /\ calls' = [calls EXCEPT ![p].pc = "set_flag", ![p].seen = <<>>]
    /\ UNCHANGED <<users, books, ratings, books_metadata, ubm>>

\* UPDATE users SET has_ratings = TRUE, and the call returns
set_flag(p) ==
    /\ calls[p].pc = "set_flag"
    /\ users' = [users EXCEPT ![calls[p].user_id].has_ratings = TRUE]
    /\ calls' = [calls EXCEPT ![p].pc = "idle"]
    /\ UNCHANGED <<books, ratings, books_metadata, users_profiles, ubm>>

\* ================================================== GeographicTransformer
MaxLookups == 3        \* calls of the geocoding service in a behaviour

\* the transformer: its cache and failed_locations, the value of the last
\* call, and (ghost) the outcomes of the service per cleaned location
VARIABLE geo

\* location strings handed to geocode_location
RawLocations == {"", "  ", "NYC ", "new york city", "Paris", "paris"}

\* location.lower().strip() with runs of whitespace collapsed, on RawLocations
lower_stripped(location) ==
    CASE location = "NYC " -> "nyc"
      [] location = "Paris" -> "paris"
      [] location = "  " -> ""
      [] OTHER -> location

\* the abbreviation expansions that apply to the strings above
expanded(cleaned) == IF cleaned = "nyc" THEN "new york city" ELSE cleaned

clean_location_string(location) ==
    IF location = "" \/ lower_stripped(location) = "" THEN ""
    ELSE expanded(lower_stripped(location))

CleanedLocations == {clean_location_string(l) : l \in RawLocations} \ {""}

\* what self.geolocator.geocode does: a result, None, or an exception
GeocoderOutcomes ==
    {"result", "no_result", "GeocoderTimedOut", "GeocoderUnavailable", "Exception"}

NoGeo == [found |-> FALSE, coordinates |-> "", original_location |-> ""]

GeoIdle ==
    [cache |-> <<>>, failed_locations |-> {}, ret |-> NoGeo,
     lookups |-> [c \in CleanedLocations |-> <<>>],
     last |-> [cleaned |-> "", before |-> <<>>, looked_up |-> FALSE]]

\* mutant: every failure of the service marks the location as failed
failed_after_any_failure(failed, cleaned, outcome) ==
    IF outcome # "result" THEN failed \cup {cleaned} ELSE failed

\* failed_locations after the service answered: no result and unexpected
\* exceptions are recorded, timeouts and unavailability are not
failed_after(failed, cleaned, outcome) ==
    IF outcome \in {"no_result", "Exception"} THEN failed \cup {cleaned} ELSE failed

\* the cache after the service answered
cache_after(cache, cleaned, location, outcome) ==
    IF outcome = "result"
    THEN (cleaned :> [found |-> TRUE, coordinates |-> cleaned,
                      original_location |-> location]) @@ cache
    ELSE cache

\* the calls of the service so far, over the locations of S
RECURSIVE total_lookups(_, _)
total_lookups(lookups, S) ==
    IF S = {} THEN 0
    ELSE LET c == CHOOSE x \in S : TRUE
         IN  Len(lookups[c]) + total_lookups(lookups, S \ {c})

lookups_made == total_lookups(geo.lookups, CleanedLocations)

\* geocode_location(location), the service answering with outcome when asked
geocode_location(location, outcome) ==
    LET cleaned == clean_location_string(location)
        blank == location = "" \/ lower_stripped(location) = ""
        hit == ~blank /\ cleaned \in DOMAIN geo.cache
        skipped == ~blank /\ ~hit /\ cleaned \in geo.failed_locations
        asked == ~blank /\ ~hit /\ ~skipped
    IN  /\ asked => lookups_made < MaxLookups
        /\ geo' =
             IF blank THEN
                [geo EXCEPT !.ret = NoGeo,
                            !.last = [cleaned |-> "", before |-> <<>>,
                                      looked_up |-> FALSE]]
             ELSE IF hit THEN
                [geo EXCEPT !.ret = geo.cache[cleaned],
                            !.last = [cleaned |-> cleaned,
                                      before |-> geo.lookups[cleaned],
                                      looked_up |-> FALSE]]
             ELSE IF skipped THEN
                [geo EXCEPT !.ret = NoGeo,
                            !.last = [cleaned |-> cleaned,
                                      before |-> geo.lookups[cleaned],
                                      looked_up |-> FALSE]]
             ELSE
                LET cache == cache_after(geo.cache, cleaned, location, outcome)
                IN  [cache |-> cache,
                     failed_locations |->
                        failed_after(geo.failed_locations, cleaned, outcome),
                     ret |-> IF outcome = "result" THEN cache[cleaned] ELSE NoGeo,
                     lookups |-> [geo.lookups EXCEPT
                                    ![cleaned] = Append(@, outcome)],
                     last |-> [cleaned |-> cleaned,
                               before |-> geo.lookups[cleaned],
                               looked_up |-> TRUE]]

auxVars == <<calls, geo>>

\* ========================================================== specifications
vars == <<users, books, ratings, books_metadata, users_profiles, ubm,
          cf, cf_hist, cf_call, div, req, req_prev, met,
          cold_db, cold, sim, calls, geo>>

recVars == <<req, req_prev>>

\* the stores before anything is inserted
InitStore ==
    /\ users = <<>>
    /\ books = {}
    /\ ratings = <<>>
    /\ books_metadata = <<>>
    /\ users_profiles = <<>>
    /\ ubm = NoCall

InitCF ==
    /\ cf = cf_unfitted
    /\ cf_hist = CFNoHist
    /\ cf_call = CFIdle

InitRec ==
    /\ req = ReqIdle
    /\ req_prev = ReqIdle

InitCold ==
    /\ cold_db = ColdEmptyDb
    /\ cold = ColdIdle
    /\ sim = SimIdle
    /\ calls = CallsIdle
    /\ geo = GeoIdle

\* the update scripts on stores that start empty
Init ==
    /\ InitStore
    /\ InitCF
    /\ InitRec
    /\ InitCold
    /\ div = DivIdle
    /\ met = MetIdle

Next ==
    \/ insert_new_user /\ UNCHANGED <<cfVars, div, recVars, met, coldVars, sim, auxVars>>
    \/ \E isbn \in 1..MaxBooks :
         insert_new_book(isbn) /\ UNCHANGED <<cfVars, div, recVars, met, coldVars, sim, auxVars>>
    \/ \E isbn \in 1..MaxBooks :
         update_book_metrics(isbn) /\ UNCHANGED <<cfVars, div, recVars, met, coldVars, sim, auxVars>>
    \/ \E u \in 1..MaxUsers, isbn \in 1..MaxBooks, r \in RatingInputs :
         insert_rating_and_update_metrics(u, isbn, r)
            /\ UNCHANGED <<cfVars, div, recVars, met, coldVars, sim, auxVars>>

Spec == Init /\ [][Next]_vars

\* the scripts of insert_new_data.py and the batch handlers of
\* update_ratings_preferences.py on the same stores
NextBatch ==
    \/ insert_new_user /\ UNCHANGED <<cfVars, div, recVars, met, coldVars, sim, auxVars>>
    \/ \E isbn \in 1..MaxBooks :
         insert_new_book(isbn) /\ UNCHANGED <<cfVars, div, recVars, met, coldVars, sim, auxVars>>
    \/ \E u \in 1..MaxUsers, isbn \in 1..MaxBooks, r \in RatingInputs :
         insert_rating_and_update_metrics(u, isbn, r)
            /\ UNCHANGED <<cfVars, div, recVars, met, coldVars, sim, auxVars>>
    \/ add_ratings_for_inactive_users
         /\ UNCHANGED <<cfVars, div, recVars, met, coldVars, sim, auxVars>>
    \/ add_ratings_for_unrated_books
         /\ UNCHANGED <<cfVars, div, recVars, met, coldVars, sim, auxVars>>

SpecBatch == Init /\ [][NextBatch]_vars

\* concurrent callers of insert_rating_and_update_metrics on stores that hold
\* the users and the books that the insertions name
InitConcurrent ==
    /\ InitCF
    /\ InitRec
    /\ InitCold
    /\ div = DivIdle
    /\ met = MetIdle
    /\ ubm = NoCall
    /\ ratings = <<>>
    /\ books = 1..MaxBooks
    /\ books_metadata = [b \in 1..MaxBooks |-> [rating_metrics |-> initial_rating_metrics]]
    /\ users = [u \in 1..MaxUsers |-> [has_ratings |-> FALSE]]
    /\ users_profiles = [u \in 1..MaxUsers |->
            [reader_level |-> "new_reader", has_ratings |-> FALSE,
             total_ratings |-> 0, total_books |-> 0, explicit_ratings |-> 0]]

NextConcurrent ==
    \/ \E p \in Callers, u \in 1..MaxUsers, isbn \in 1..MaxBooks, r \in RatingInputs :
         call_insert_rating(p, u, isbn, r)
           /\ UNCHANGED <<cfVars, div, recVars, met, coldVars, sim, geo>>
    \/ \E p \in Callers :
         select_seq(p) /\ UNCHANGED <<cfVars, div, recVars, met, coldVars, sim, geo>>
    \/ \E p \in Callers :
         insert_row(p) /\ UNCHANGED <<cfVars, div, recVars, met, coldVars, sim, geo>>
    \/ \E p \in Callers :
         book_select(p) /\ UNCHANGED <<cfVars, div, recVars, met, coldVars, sim, geo>>
    \/ \E p \in Callers :
         book_update(p) /\ UNCHANGED <<cfVars, div, recVars, met, coldVars, sim, geo>>
    \/ \E p \in Callers :
         user_select(p) /\ UNCHANGED <<cfVars, div, recVars, met, coldVars, sim, geo>>
    \/ \E p \in Callers :
         user_update(p) /\ UNCHANGED <<cfVars, div, recVars, met, coldVars, sim, geo>>
    \/ \E p \in Callers :
         set_flag(p) /\ UNCHANGED <<cfVars, div, recVars, met, coldVars, sim, geo>>

SpecConcurrent == InitConcurrent /\ [][NextConcurrent]_vars

\* calls of GeographicTransformer.geocode_location on a new transformer
NextGeo ==
    \E location \in RawLocations, outcome \in GeocoderOutcomes :
        geocode_location(location, outcome)
          /\ UNCHANGED <<storeVars, cfVars, div, recVars, met, coldVars, sim, calls>>

SpecGeo == Init /\ [][NextGeo]_vars

\* the latent-factor recommender, from the unfitted instance
NextCF ==
    \/ \E rows \in Frames : fit(rows) /\ UNCHANGED <<storeVars, div, recVars, met, coldVars, sim, auxVars>>
    \/ \E u \in CFQueryUsers, c \in SUBSET CFQueryItems :
         predict_for_user(u, c) /\ UNCHANGED <<storeVars, div, recVars, met, coldVars, sim, auxVars>>
    \/ \E u \in CFQueryUsers, c \in SUBSET CFQueryItems, k \in 0..MaxK,
          seen \in SeenFrames :
         recommend(u, c, k, seen) /\ UNCHANGED <<storeVars, div, recVars, met, coldVars, sim, auxVars>>
    \/ cf_return /\ UNCHANGED <<storeVars, div, recVars, met, coldVars, sim, auxVars>>

SpecCF == Init /\ [][NextCF]_vars

\* the author diversity step on every bounded recommendation list
InitDiverse ==
    /\ InitStore
    /\ InitCF
    /\ InitRec
    /\ InitCold
    /\ met = MetIdle
    /\ \E n \in 0..MaxRecs :
         \E input \in DivInputs(n) : div = [DivIdle EXCEPT !.stage = "input",
                                                           !.input = input]

NextDiverse ==
    \E m \in 1..2, limit \in 1..MaxRecs :
        diversity_step(m, limit) /\ UNCHANGED <<storeVars, cfVars, recVars, met, coldVars, sim, auxVars>>

SpecDiverse == InitDiverse /\ [][NextDiverse]_vars

\* the recommendation scripts on every snapshot
InitSnapshot ==
    /\ InitCF
    /\ InitRec
    /\ InitCold
    /\ div = DivIdle
    /\ met = MetIdle
    /\ ubm = NoCall
    /\ books = SnapBooks
    /\ \E h \in [SnapUsers -> Histories], with_content \in BOOLEAN :
         /\ ratings = snapshot_ratings(h)
         /\ users = [u \in SnapUsers |-> [has_ratings |-> h[u].extent > 0]]
         /\ books_metadata = snapshot_metadata(snapshot_ratings(h), with_content)
         /\ users_profiles =
              [u \in SnapUsers |->
                 snapshot_profile(snapshot_ratings(h), u, with_content)]

NextRec ==
    \/ \E u \in SnapUsers, limit \in LimitChoices, w \in WeightChoices :
         hybrid_main(u, limit, w) /\ UNCHANGED <<storeVars, cfVars, div, met, coldVars, sim, auxVars>>
    \/ hybrid_main_again /\ UNCHANGED <<storeVars, cfVars, div, met, coldVars, sim, auxVars>>
    \/ \E u \in SnapUsers, limit \in LimitChoices :
         hybrid_call(u, limit, <<4, 4, 2>>) /\ UNCHANGED <<storeVars, cfVars, div, met, coldVars, sim, auxVars>>
    \/ \E u \in SnapUsers, limit \in LimitChoices, m \in MinCommonChoices :
         collab_main(u, limit, m) /\ UNCHANGED <<storeVars, cfVars, div, met, coldVars, sim, auxVars>>

SpecRec == InitSnapshot /\ [][NextRec]_vars

\* histories for the content-only requests: a user who likes the books with
\* odd isbn only, beside users who rated more books and liked all of them
ContentHistories ==
    {[shape |-> "odd", extent |-> MinCommonBooks],
     [shape |-> "up", extent |-> MinCommonBooks],
     [shape |-> "up", extent |-> NumBooks],
     [shape |-> "flat", extent |-> NumBooks]}

InitContent ==
    /\ InitCF
    /\ InitRec
    /\ InitCold
    /\ div = DivIdle
    /\ met = MetIdle
    /\ ubm = NoCall
    /\ books = SnapBooks
    /\ \E h \in [SnapUsers -> ContentHistories], with_content \in BOOLEAN :
         /\ ratings = snapshot_ratings(h)
         /\ users = [u \in SnapUsers |-> [has_ratings |-> h[u].extent > 0]]
         /\ books_metadata = snapshot_metadata(snapshot_ratings(h), with_content)
         /\ users_profiles =
              [u \in SnapUsers |->
                 snapshot_profile(snapshot_ratings(h), u, with_content)]

\* the hybrid script and get_hybrid_recommendations with the whole weight on
\* the content score
NextContent ==
    \/ \E u \in SnapUsers, limit \in LimitChoices :
         hybrid_main(u, limit, <<1, 0, 0>>)
           /\ UNCHANGED <<storeVars, cfVars, div, met, coldVars, sim, auxVars>>
    \/ \E u \in SnapUsers, limit \in LimitChoices :
         hybrid_call(u, limit, <<10, 0, 0>>)
           /\ UNCHANGED <<storeVars, cfVars, div, met, coldVars, sim, auxVars>>

SpecContent == InitContent /\ [][NextContent]_vars

\* the evaluation metrics on every bounded list, relevant set and k
InitMetrics ==
    /\ InitStore
    /\ InitCF
    /\ InitRec
    /\ InitCold
    /\ div = DivIdle
    /\ \E recommended \in MetLists, relevant \in SUBSET MetItems, k \in MetKs :
         met = [MetIdle EXCEPT !.recommended = recommended,
                               !.relevant = relevant, !.k = k]

NextMetrics ==
    \/ call_precision_at_k /\ UNCHANGED <<storeVars, cfVars, div, recVars, coldVars, sim, auxVars>>
    \/ call_recall_at_k /\ UNCHANGED <<storeVars, cfVars, div, recVars, coldVars, sim, auxVars>>
    \/ call_average_precision /\ UNCHANGED <<storeVars, cfVars, div, recVars, coldVars, sim, auxVars>>
    \/ call_ndcg_at_k /\ UNCHANGED <<storeVars, cfVars, div, recVars, coldVars, sim, auxVars>>

SpecMetrics == InitMetrics /\ [][NextMetrics]_vars

\* the cold-start script on every bounded users and ratings table
InitColdStart ==
    /\ InitStore
    /\ InitCF
    /\ req = ReqIdle
    /\ req_prev = ReqIdle
    /\ div = DivIdle
    /\ met = MetIdle
    /\ cold = ColdIdle
    /\ sim = SimIdle
    /\ calls = CallsIdle
    /\ geo = GeoIdle
    /\ \E age_group \in {None, "young_adult_18_24"}, gender \in {None, "female"},
          count \in ColdCounts, kinds \in ColdKinds(NumColdUsers),
          with_metrics \in BOOLEAN :
         cold_db = [users |-> cold_users(age_group, gender, kinds),
                    ratings |-> cold_ratings(count, kinds),
                    with_metrics |-> with_metrics]

NextColdStart ==
    \/ \E user_id \in {ColdTarget, NumColdUsers + 1}, limit \in ColdLimits :
         cold_main(user_id, limit)
           /\ UNCHANGED <<storeVars, cfVars, div, recVars, met, sim, auxVars>>
    \/ \E limit \in CohortLimits :
         cohort_call(limit) /\ UNCHANGED <<storeVars, cfVars, div, recVars, met, sim, auxVars>>

SpecColdStart == InitColdStart /\ [][NextColdStart]_vars

\* the neighbour finders on every snapshot of NumSimUsers users
InitSimilar ==
    /\ InitCF
    /\ InitRec
    /\ InitCold
    /\ div = DivIdle
    /\ met = MetIdle
    /\ ubm = NoCall
    /\ books = SnapBooks
    /\ \E h \in [SimUsers -> SimHistories] :
         /\ ratings = snapshot_ratings(h)
         /\ users = [u \in SimUsers |-> [has_ratings |-> h[u].extent > 0]]
         /\ books_metadata = snapshot_metadata(snapshot_ratings(h), FALSE)
         /\ users_profiles =
              [u \in SimUsers |-> snapshot_profile(snapshot_ratings(h), u, FALSE)]

NextSimilar ==
    \/ \E u \in SimTargets, m \in SimMinCommon, limit \in SimLimits :
         find_similar_users(u, m, limit)
           /\ UNCHANGED <<storeVars, cfVars, div, recVars, met, coldVars, auxVars>>
    \/ \E u \in SimTargets, m \in SimMinCommon, limit \in SimLimits :
         find_similar_users_simple(u, m, limit)
           /\ UNCHANGED <<storeVars, cfVars, div, recVars, met, coldVars, auxVars>>

SpecSimilar == InitSimilar /\ [][NextSimilar]_vars


\* ================================================================== claims

IsbnsOf(result) == {result[i].isbn : i \in 1..Len(result)}

\* C1: no book returned by get_hybrid_recommendations or by
\* get_recommendations_from_similar_users is a book that the target user
\* has rated, whatever the snapshot, the weights and the limit.
C1_NoRatedBookReturned ==
    /\ IsbnsOf(req.result) \cap rated_isbns_of(ratings, req.user_id) = {}
    /\ IsbnsOf(req_prev.result) \cap rated_isbns_of(ratings, req_prev.user_id) = {}

\* a request of a user with ratings returned books, one of them because a
\* similar user rated it highly
C1_Witness ==
    /\ req.op = "hybrid_main"
    /\ rated_isbns_of(ratings, req.user_id) # {}
    /\ \E i \in 1..Len(req.result) : req.result[i].collab_score > 0

\* C2: two runs of the hybrid recommender for the same user on the same
\* stores with the same weights and limit return the same books in the same
\* order.
C2_SameOrderedOutput ==
    req_prev.op # None => req.result = req_prev.result

C4_ColdStartRouted ==
    (/\ req.op \in {"hybrid_main", "get_hybrid_recommendations"}
     /\ rated_isbns_of(ratings, req.user_id) = {}
     /\ req.outcome # "ZeroDivisionError")
        => /\ "find_similar_demographic_users" \in req.calls
           /\ req.outcome \in {"ok", "no_recommendations"}

malformed_weights(w) ==
    \/ w[1] < 0 \/ w[2] < 0 \/ w[3] < 0
    \/ (w[1] = 0 /\ w[2] = 0 /\ w[3] = 0)

\* C5: a hybrid request with a negative weight or with three zero weights
\* fails with ConfigurationError before any scoring and returns no list.
C5_MalformedWeightsRejected ==
    (req.op = "hybrid_main" /\ malformed_weights(req.weights))
        => (req.outcome = "ConfigurationError" /\ req.result = <<>>)

\* a / b < c / d for positive b, d
Less(a, b, c, d) == a * d < c * b

\* C6 as stated: for count > 0 the quality score lies strictly between the
\* average total/count and the prior mean 5.
C6_StrictlyBetween ==
    ubm.total_ratings > 0 =>
        \/ /\ Less(5, 1, ubm.score_num, ubm.score_den)
           /\ Less(ubm.score_num, ubm.score_den, ubm.total_score, ubm.total_ratings)
        \/ /\ Less(ubm.total_score, ubm.total_ratings, ubm.score_num, ubm.score_den)
           /\ Less(ubm.score_num, ubm.score_den, 5, 1)

\* C6 amended: for count > 0 the quality score lies strictly between the
\* average and 5 when the average is not 5, and equals 5 when the average
\* is 5.
C6_Shrinkage ==
    ubm.total_ratings > 0 =>
        IF ubm.total_score = 5 * ubm.total_ratings
        THEN ubm.score_num = 5 * ubm.score_den
        ELSE \/ /\ Less(5, 1, ubm.score_num, ubm.score_den)
                /\ Less(ubm.score_num, ubm.score_den,
                        ubm.total_score, ubm.total_ratings)
             \/ /\ Less(ubm.total_score, ubm.total_ratings,
                        ubm.score_num, ubm.score_den)
                /\ Less(ubm.score_num, ubm.score_den, 5, 1)

\* update_book_metrics ran on a book with several ratings whose average is
\* not 5
C6_Witness ==
    /\ ubm.total_ratings >= 2
    /\ ubm.total_score > 5 * ubm.total_ratings

\* C7: a book without ratings has the stored quality score 5 (500
\* hundredths), freshly inserted or after update_book_metrics.
C7_UnratedHasPriorMean ==
    \A isbn \in DOMAIN books_metadata :
        books_metadata[isbn].rating_metrics.r_count = 0
            => books_metadata[isbn].rating_metrics.rating_score = 500

C9_NotFittedError ==
    cf_call.op \in {"predict_for_user", "recommend"} =>
        ((cf_call.outcome = "RuntimeError") <=> ~cf_hist.fit_done)

\* recommend raised the not-fitted error on an instance whose indexes a
\* failed fit had already built
C9_Witness ==
    /\ cf_call.op = "recommend"
    /\ cf_call.outcome = "RuntimeError"
    /\ cf.user_index # NoneF

\* C10: fit with an empty frame raises and leaves every field of the
\* instance as it was.
C10_EmptyFitKeepsModel ==
    [][(cf_call.op = None /\ cf_call'.op = "fit" /\ cf_call'.rows = <<>>)
          => (cf_call'.outcome = "ValueError" /\ cf' = cf)]_vars

\* an empty fit raised on an instance that an earlier fit had fitted
C10_Witness ==
    /\ cf_call.op = "fit"
    /\ cf_call.rows = <<>>
    /\ cf_call.outcome = "ValueError"
    /\ cf.user_factors # NoneF
    /\ cf.item_factors # NoneF

\* C11: a prediction on an instance that was refit never uses the indexes of
\* one fit with the factor matrices of another: when predict_for_user or
\* recommend gets past the not-fitted test, the indexes of the instance are
\* those of the frame whose fit produced its factor matrices.
C11_IndexesAndFactorsOfOneFit ==
    (/\ cf_call.op \in {"predict_for_user", "recommend"}
     /\ cf_call.outcome # "RuntimeError")
        => /\ cf.user_index = IndexOf(frame_users(cf_hist.rows))
           /\ cf.item_index = IndexOf(frame_items(cf_hist.rows))
           /\ cf.index_item = frame_items(cf_hist.rows)

\* the first min(k, len) items of the list of the metric call, for k >= 0
MetTop == SubSeq(met.recommended, 1, Min(met.k, Len(met.recommended)))

MetRelevantRanks == {i \in 1..Len(MetTop) : MetTop[i] \in met.relevant}

\* C12: for k >= 0, ndcg_at_k is 1.0 when the top k holds a relevant item
\* and every relevant item of it stands before every other item, and 0.0
\* when the top k holds no relevant item.
C12_NdcgSortedOrNoHit ==
    (met.fn = "ndcg_at_k" /\ met.k >= 0) =>
        /\ met.result.outcome = "ok"
        /\ (MetRelevantRanks # {}
            /\ MetRelevantRanks = 1..Cardinality(MetRelevantRanks))
              => met.result.num = met.result.den
        /\ MetRelevantRanks = {} => met.result.num = 0

\* ndcg_at_k returned 1.0 for a top k with a relevant item ahead of another
\* item
C12_Witness ==
    /\ met.fn = "ndcg_at_k"
    /\ met.k >= 2
    /\ Len(MetTop) >= 2
    /\ MetRelevantRanks = {1}
    /\ met.result.num = met.result.den
    /\ met.result.num > 0

\* C13: the four metrics return for every list, relevant set and k, and the
\* result is 0.0 whenever the divisor of their ratio is zero: k = 0 for
\* precision, an empty relevant set for recall and average precision, no
\* relevant item in recommended[:k] for NDCG.
C13_MetricsTotal ==
    met.fn # None =>
        /\ met.result.outcome = "ok"
        /\ met.result.den > 0
        /\ (met.fn = "precision_at_k" /\ met.k = 0) => met.result.num = 0
        /\ (met.fn \in {"recall_at_k", "average_precision"}
            /\ met.relevant = {}) => met.result.num = 0
        /\ (met.fn = "ndcg_at_k"
            /\ hits_in(top_k(met.recommended, met.k), met.relevant) = 0)
              => met.result.num = 0

\* recall_at_k returned 0.0 for an empty relevant set, a list with items and
\* a k beyond its length
C13_Witness ==
    /\ met.fn = "recall_at_k"
    /\ met.relevant = {}
    /\ met.recommended # <<>>
    /\ met.k > Len(met.recommended)
    /\ met.result = Zero

\* the DCG of the ranking that has n relevant items on its first n ranks
IdealDcg(n) == SumSeq(List([i \in 1..n |-> Discount(i)]))

\* C14: for k >= 1, ndcg_at_k is the DCG of the top k divided by the DCG of
\* the ranking with min(k, |relevant|) relevant items on the first ranks,
\* and it is below 1.0 when the top k holds fewer relevant items than that.
C14_NdcgIdealOfUser ==
    (met.fn = "ndcg_at_k" /\ met.k >= 1 /\ met.relevant # {}) =>
        LET n == Min(met.k, Cardinality(met.relevant))
        IN  /\ met.result.num * IdealDcg(n)
                 = dcg(MetTop, met.relevant) * met.result.den
            /\ Cardinality(MetRelevantRanks) < n
                 => met.result.num < met.result.den

\* C15: for a user with 1 to 20 ratings, the recommendations that the
\* cold-start script returns hold no book that the user has rated.
C15_ColdStartSkipsRated ==
    (/\ cold.op = "main"
     /\ cold.outcome = "ok"
     /\ cold.rating_count \in 1..ColdStartThreshold)
        => IsbnsOf(cold.result) \cap cold.rated = {}

\* C16: the cold-start script goes on to build recommendations exactly when
\* the rating count of the user is below 20; with 20 ratings it stops.
C16_ColdStartBelowThreshold ==
    (cold.op = "main" /\ cold.outcome # "user_not_found")
        => (cold.outcome # "not_cold_start"
              <=> cold.rating_count < ColdStartThreshold)

\* C17: the list of find_similar_demographic_users never holds the target
\* user, its rows marked "demographic" share the age group and the gender of
\* the target, and it has rows marked "random" only when no user with
\* ratings shares them.
C17_CohortOfOthers ==
    (cold.op = "find_similar_demographic_users") =>
        LET mine == cold_db.users[cold.user_id]
            Shares(u) == /\ cold_db.users[u].age_group = mine.age_group
                         /\ cold_db.users[u].gender = mine.gender
        IN  /\ cold.user_id \notin cold.similar_users.demographic
            /\ cold.user_id \notin cold.similar_users.random
            /\ \A u \in cold.similar_users.demographic : Shares(u)
            /\ cold.similar_users.random # {}
                 => ~\E u \in active_users(cold_db) \ {cold.user_id} : Shares(u)

\* C18: the list of the hybrid recommender is ordered by total score, largest
\* first, and of two books with the same total score the one with the
\* smaller isbn comes first.
C18_OrderedByScoreThenIsbn ==
    (req.op \in {"hybrid_main", "get_hybrid_recommendations"}
     /\ req.outcome = "ok") =>
        \A i, j \in 1..Len(req.result) :
            i < j =>
                \/ req.result[i].total_score > req.result[j].total_score
                \/ /\ req.result[i].total_score = req.result[j].total_score
                   /\ req.result[i].isbn < req.result[j].isbn

\* the ratings of the target of the neighbour finder call, the candidates it
\* looked at, and the books a candidate has in common with the target
SimTarget == get_user_ratings(ratings, sim.user_id)

SimPool == {sim.order[i] : i \in 1..Len(sim.order)}

SimReturned == {sim.result[i].user_id : i \in 1..Len(sim.result)}

SimCommon(c) == DOMAIN SimTarget \cap DOMAIN get_user_ratings(ratings, c)

\* the ratings x have no variance over the books S
Constant(x, S) == \A a, b \in S : x[a] = x[b]

ZeroVariancePair(c) ==
    \/ Constant(SimTarget, SimCommon(c))
    \/ Constant(get_user_ratings(ratings, c), SimCommon(c))

\* C19: find_similar_users and find_similar_users_simple return no candidate
\* whose ratings, or the target's, are all equal over the books the two have
\* in common, and they never divide by a zero denominator.
C19_ZeroVarianceExcluded ==
    sim.op # None =>
        /\ \A c \in SimPool : ZeroVariancePair(c) => c \notin SimReturned
        /\ 0 \notin sim.divisors

\* a finder looked at a candidate with equal ratings over enough common
\* books and returned another candidate
C19_Witness ==
    /\ sim.op \in {"find_similar_users", "find_similar_users_simple"}
    /\ sim.result # <<>>
    /\ \E c \in SimPool :
         /\ Cardinality(SimCommon(c)) >= sim.min_common_books
         /\ ZeroVariancePair(c)
         /\ c \notin SimReturned

\* the candidate shares min_common_books books with the target and its
\* correlation numerator / sqrt(target_sq * candidate_sq) is above 0.3
Neighbour(c) ==
    LET p == pearson(SimTarget, get_user_ratings(ratings, c))
    IN  /\ Cardinality(SimCommon(c)) >= sim.min_common_books
        /\ p.numerator > 0
        /\ p.target_sq * p.candidate_sq > 0
        /\ 100 * p.numerator * p.numerator > 9 * p.target_sq * p.candidate_sq

CorrelationOf(c) ==
    LET p == pearson(SimTarget, get_user_ratings(ratings, c))
    IN  correlation_centi(p.numerator, p.target_sq, p.candidate_sq)

\* C20: find_similar_users returns, of the candidates it looked at that
\* share min_common_books books with the target and correlate above 0.3, the
\* 'limit' with the largest correlation, each once, ordered by correlation,
\* largest first; for a target without ratings it returns the empty list.
C20_NeighboursExact ==
    sim.op = "find_similar_users" =>
        LET qualifying == {c \in SimPool : Neighbour(c)}
        IN  /\ SimReturned \subseteq qualifying
            /\ Len(sim.result) = Min(sim.limit, Cardinality(qualifying))
            /\ Cardinality(SimReturned) = Len(sim.result)
            /\ \A i, j \in 1..Len(sim.result) :
                 i < j => sim.result[i].correlation >= sim.result[j].correlation
            /\ \A c \in qualifying \ SimReturned, i \in 1..Len(sim.result) :
                 sim.result[i].correlation >= CorrelationOf(c)
            /\ DOMAIN SimTarget = {} => sim.result = <<>>

\* find_similar_users kept the better of two qualifying candidates that the
\* query handed out worse first
C20_Witness ==
    /\ sim.op = "find_similar_users"
    /\ sim.limit = 1
    /\ Len(sim.result) = 1
    /\ Len(sim.order) >= 2
    /\ Neighbour(sim.order[1])
    /\ sim.order[1] \notin SimReturned
    /\ CorrelationOf(sim.order[1]) < sim.result[1].correlation

\* C30: for every list (items may repeat), every relevant set and every
\* k >= 1, each of the four metrics returns a value from 0 to 1.
C30_MetricsInUnitInterval ==
    (met.fn # None /\ met.k >= 1) =>
        /\ met.result.outcome = "ok"
        /\ 0 <= met.result.num
        /\ met.result.num <= met.result.den

\* C24: after a fit on a frame with U users and I items, the factor matrices
\* have at most min(U, I) - 1 columns and at most n_factors columns.
C24_FactorsBelowRank ==
    (cf_call.op = "fit" /\ cf_call.outcome = "ok") =>
        LET U == Len(frame_users(cf_call.rows))
            I == Len(frame_items(cf_call.rows))
            k == Len(cf.item_factors[1])
        IN  /\ k <= Min(U, I) - 1
            /\ k <= n_factors

\* the primary author of a book of the list: the first author of its author
\* list, 0 (unknown) for a book whose metadata has no authors text
PrimaryOf(rec) == IF rec.fmt = "missing" THEN 0 ELSE rec.authors[1]

\* the books of the input that ensure_author_diversity kept before position i
KeptBefore(i) ==
    {j \in 1..Len(div.diverse_recs) : div.diverse_recs[j].isbn < i}

C21_MetricsMatchInteractions ==
    \A b \in books :
        Len(RowsOfBook(ratings, b)) > 0 =>
            LET l == book_metrics_locals(ratings, b)
                m == books_metadata[b].rating_metrics
            IN  /\ m.r_count = l.total_ratings
                /\ m.r_total = l.total_score
                /\ m.r_avg = Round2(l.total_score, l.total_ratings)

\* C22: the ratings table holds at most one interaction per (user, book):
\* an insertion for a pair that is already there replaces its rating instead
\* of adding a second row, and the matrix that the latent-factor model
\* builds from the table holds that one rating in the cell of the pair.
C22_OneInteractionPerPair ==
    /\ \A i, j \in 1..Len(ratings) :
         (ratings[i].user_id = ratings[j].user_id /\ ratings[i].isbn = ratings[j].isbn)
            => i = j
    /\ LET M == build_matrix(ratings)
           us == frame_users(ratings)
           its == frame_items(ratings)
       IN  \A i \in 1..Len(ratings), r \in 1..Len(us), c \in 1..Len(its) :
             (/\ ratings[i].user_id = us[r]
              /\ ratings[i].isbn = its[c]
              /\ \A j \in 1..Len(ratings) :
                   (ratings[j].user_id = us[r] /\ ratings[j].isbn = its[c]) => j <= i)
                => M[r][c] = ratings[i].rating

C23_SequenceNumbersOrdered ==
    \A i, j \in 1..Len(ratings) :
        i < j =>
            /\ ratings[i].user_id = ratings[j].user_id
                 => ratings[i].r_seq_user < ratings[j].r_seq_user
            /\ ratings[i].isbn = ratings[j].isbn
                 => ratings[i].r_seq_book < ratings[j].r_seq_book

\* C27: once the concurrent insert_rating_and_update_metrics calls have all
\* returned, the stored r_count and r_total of every rated book equal the
\* count and the sum of the book's stored ratings.
C27_NoStaleOverwrite ==
    (\A p \in Callers : calls[p].pc = "idle") =>
        \A b \in books :
            Len(RowsOfBook(ratings, b)) > 0 =>
                /\ books_metadata[b].rating_metrics.r_count
                     = Len(RowsOfBook(ratings, b))
                /\ books_metadata[b].rating_metrics.r_total
                     = SumSeq(RatingsOf(RowsOfBook(ratings, b)))

Definitive == {"result", "no_result"}

Transient == {"GeocoderTimedOut", "GeocoderUnavailable"}

\* C29: over any sequence of geocode_location calls, the service is not
\* called again for a cleaned location once it gave a definitive outcome (a
\* result, then served from the cache, or no result, then skipped); a call
\* for a location whose last lookup timed out or found the service
\* unavailable calls the service again; and no cleaned location is both in
\* the cache and in failed_locations.
C29_GeocodeOnce ==
    /\ \A c \in CleanedLocations :
         LET h == geo.lookups[c]
         IN  /\ \A i \in 1..Len(h) : h[i] \in Definitive => i = Len(h)
             /\ (h # <<>> /\ h[Len(h)] = "result") => c \in DOMAIN geo.cache
             /\ (h # <<>> /\ h[Len(h)] = "no_result") => c \in geo.failed_locations
    /\ (geo.last.cleaned # "" /\ geo.last.before # <<>>) =>
         LET prev == geo.last.before[Len(geo.last.before)]
         IN  /\ prev \in Transient => geo.last.looked_up
             /\ prev \in Definitive => ~geo.last.looked_up
             /\ prev = "result" => geo.ret = geo.cache[geo.last.cleaned]
             /\ prev = "no_result" => geo.ret = NoGeo
    /\ DOMAIN geo.cache \cap geo.failed_locations = {}

\* a location timed out, was looked up again with a result, and a later call
\* was served from the cache; another location had no result and was skipped
C29_Witness ==
    /\ \E c \in CleanedLocations :
         /\ Len(geo.lookups[c]) = 2
         /\ geo.lookups[c][1] \in Transient
         /\ geo.lookups[c][2] = "result"
         /\ geo.last.cleaned = c
         /\ ~geo.last.looked_up
         /\ geo.ret.found
    /\ \E c \in CleanedLocations : geo.lookups[c] = <<"no_result">>

\* the favourite genres and the candidate set that a hybrid request for
\* user u may have worked with
ContentChoices(u) ==
    UNION {UNION {
        {[user_genres |-> user_genres,
          candidate_isbns |->
             hybrid_candidates(ratings, books, u, user_genres, genre_books,
                similar_users_list(ratings, u, MinCommonBooks,
                                   SimpleCandidateCap, SimilarLimit, corder))] :
           corder \in Perms(candidate_users(ratings, u))} :
        genre_books \in genre_book_sets(books, user_genres)} :
        user_genres \in get_user_favorite_genres(ratings, u)}

\* the content score of book b for user u with favourite genres g
ContentOf(b, u, g) ==
    content_based_score(books_metadata[b],
                        get_user_preferences(users_profiles, u), g)

ContentOnly ==
    /\ req.op \in {"hybrid_main", "get_hybrid_recommendations"}
    /\ req.weights \in {<<1, 0, 0>>, <<10, 0, 0>>}
    /\ req.limit = 1

=============================================================================
